---- MODULE Spec2Model ----
(***************************************************************************)
(* Claim-based rental search backend: the indexing pipeline that writes a  *)
(* listing's claims into the rooms / apartments / neighborhoods indices,   *)
(* the CRUD service that reads and deletes them, and the search pipeline   *)
(* (hierarchy filter, anti-claim gate, quantifier validation, scorer).     *)
(*                                                                         *)
(* Scores are fixed point: one unit is 10^-6, so a cosine similarity of    *)
(* 0.95 is 950000.  The store is modelled as three maps from document id   *)
(* to document; a write is visible to the next read (the refresh calls of  *)
(* the code are steps of the process that change nothing else).            *)
(***************************************************************************)
EXTENDS Integers, Sequences, FiniteSets, TLC

\* ------------------------------------------------------------------ bounds
MaxClaims == 1
MaxCalls == 2

Apts == {"a1", "a2"}
NoneId == "None"
NbhdIds == {"n1", NoneId}
\* The rent each listing is submitted with.
RentOf(a) == IF a = "a1" THEN 1500 ELSE 3000
Domains == {"room", "apartment", "neighborhood"}

VARIABLES
    rooms,          \* rooms index: doc id -> doc
    apartments,     \* apartments index: doc id -> doc
    neighborhoods,  \* neighborhoods index: doc id -> doc
    proc,           \* per apartment id: the IndexerPipeline.process call
    calls,          \* number of process calls started so far
    delResult,      \* per apartment id: response of the last delete_apartment
    got,            \* the last get_apartment call and its response
    found,          \* the last search call and its response
    input,          \* arguments of the search function being applied
    output,         \* its result
    requests_window, \* VisionService.requests_window: admission times, oldest first
    lock,           \* VisionService._lock: whether held, and the callers queued for it
    clock,          \* time.time(), in whole seconds
    callers,        \* per caller of describe_single_image: where it is in _rate_limit
    admitted        \* every time at which _rate_limit let a caller through

storeVars == <<rooms, apartments, neighborhoods>>
visionVars == <<requests_window, lock, clock, callers, admitted>>
vars == <<rooms, apartments, neighborhoods, proc, calls, delResult, got, found,
          input, output, requests_window, lock, clock, callers, admitted>>

\* The response of a read request is kept only until the next step.
NoGet == [id |-> "a1", indexed |-> FALSE,
          result |-> [status |-> "none", total_features |-> 0,
                      neighborhood |-> 0, apartment |-> 0, room |-> 0],
          response |-> [found |-> FALSE, total_claims |-> 0]]
NoSearch == [issued |-> FALSE]
Forget == got' = NoGet /\ found' = NoSearch /\ UNCHANGED <<input, output, visionVars>>

\* ------------------------------------------------------- the vector store
\* es_client.client.index(index, id, document): create or overwrite by id.
IndexDoc(index, id, doc) ==
    [x \in (DOMAIN index) \cup {id} |-> IF x = id THEN doc ELSE index[x]]

\* delete_by_query {"term": {"apartment_id": id}}: a document matches only
\* if it has the field and the field equals the value.
TermApartmentId(doc, id) ==
    "apartment_id" \in DOMAIN doc /\ doc.apartment_id = id

DeleteByQuery(index, id) ==
    [x \in {y \in DOMAIN index : ~TermApartmentId(index[y], id)} |-> index[x]]

DeletedCount(index, id) ==
    Cardinality({y \in DOMAIN index : TermApartmentId(index[y], id)})

\* ---------------------------------------------------- indexing pipeline
\* The claim text of the idx-th claim of a domain in the call number c for
\* apartment a.  Texts of different calls are different.
ClaimText(a, c, dom, idx) == <<a, c, dom, idx>>

NoResult == [status |-> "none", total_features |-> 0,
             neighborhood |-> 0, apartment |-> 0, room |-> 0]

_empty_result == [status |-> "success", total_features |-> 0,
                  neighborhood |-> 0, apartment |-> 0, room |-> 0]

_build_result(p) ==
    [status |-> "success",
     total_features |-> p.nroom + p.napt + p.nnb,
     neighborhood |-> p.nnb, apartment |-> p.napt, room |-> p.nroom]

IdleProc == [pc |-> "idle", call |-> 0, nid |-> NoneId, rent |-> 1500,
             nroom |-> 0, napt |-> 0, nnb |-> 0, idx |-> 0,
             summary |-> FALSE, result |-> NoResult]

\* The document _index_room_claims writes for the idx-th room claim.
RoomDocId(a, idx) == <<a, "room", idx>>
RoomDoc(a, p, idx) ==
    [room_id |-> RoomDocId(a, idx), apartment_id |-> a,
     claim |-> ClaimText(a, p.call, "room", idx)]

\* The document _index_apartment_claims writes for the idx-th apartment claim.
ApartmentDocId(a, idx) == <<a, "claim", idx>>
ApartmentDoc(a, p, idx) ==
    [apartment_id |-> a, neighborhood_id |-> p.nid, rent_price |-> p.rent,
     claim |-> ClaimText(a, p.call, "apartment", idx),
     property_summary |-> FALSE]

\* The document _index_neighborhood_claims writes: keyed by the listing's
\* neighborhood_id or 'unknown'; it has no apartment_id field.
NeighborhoodKey(nid) == IF nid = NoneId THEN "unknown" ELSE nid
NeighborhoodDocId(nid, idx) == <<NeighborhoodKey(nid), "claim", idx>>
NeighborhoodDoc(a, p, idx) ==
    [neighborhood_id |-> NeighborhoodKey(p.nid),
     claim |-> ClaimText(a, p.call, "neighborhood", idx)]

\* Where the call stands after the step at (phase, idx): the loops over an
\* empty claim list issue no store call.
AfterStart(p) ==
    IF p.nroom > 0 THEN "rooms"
    ELSE IF p.napt > 0 THEN "apartments"
    ELSE IF p.nnb > 0 THEN "neighborhoods"
    ELSE "refresh"

AfterRooms(p) ==
    IF p.napt > 0 THEN "apartments"
    ELSE IF p.nnb > 0 THEN "neighborhoods"
    ELSE "refresh"

\* The step after the apartment writes with the refresh left out.
AfterApartmentsNoRefresh(p) == IF p.nnb > 0 THEN "neighborhoods" ELSE "enrich"

AfterApartments(p) == IF p.nnb > 0 THEN "neighborhoods" ELSE "refresh"

\* process(): the upstream phases (extraction, dedup, grounding, expansion,
\* quantifiers, embedding) yield the embedded claims, here their number per
\* domain.  No claims: the empty success result, nothing is written.
StartProcess(a) ==
    /\ proc[a].pc = "idle"
    /\ calls < MaxCalls
    /\ \E nid \in NbhdIds,
          nroom \in 0..MaxClaims, napt \in 0..MaxClaims, nnb \in 0..MaxClaims :
          LET p == [IdleProc EXCEPT !.call = calls + 1, !.nid = nid,
                                    !.rent = RentOf(a), !.nroom = nroom,
                                    !.napt = napt, !.nnb = nnb]
          IN proc' = [proc EXCEPT ![a] =
                        IF nroom + napt + nnb = 0
                        THEN [p EXCEPT !.pc = "done", !.result = _empty_result]
                        ELSE [p EXCEPT !.pc = AfterStart(p)]]
    /\ calls' = calls + 1
    /\ delResult' = [delResult EXCEPT ![a] = [status |-> "none", total_deleted |-> 0]]
    /\ UNCHANGED <<rooms, apartments, neighborhoods>>
    /\ Forget

_index_room_claims(a) ==
    /\ proc[a].pc = "rooms"
    /\ LET p == proc[a] IN
        /\ rooms' = IndexDoc(rooms, RoomDocId(a, p.idx), RoomDoc(a, p, p.idx))
        /\ proc' = [proc EXCEPT ![a] =
                      IF p.idx + 1 < p.nroom
                      THEN [p EXCEPT !.idx = p.idx + 1]
                      ELSE [p EXCEPT !.idx = 0, !.pc = AfterRooms(p)]]
    /\ UNCHANGED <<apartments, neighborhoods, calls, delResult>>
    /\ Forget

_index_apartment_claims(a) ==
    /\ proc[a].pc = "apartments"
    /\ LET p == proc[a] IN
        /\ apartments' = IndexDoc(apartments, ApartmentDocId(a, p.idx),
                                  ApartmentDoc(a, p, p.idx))
        /\ proc' = [proc EXCEPT ![a] =
                      IF p.idx + 1 < p.napt
                      THEN [p EXCEPT !.idx = p.idx + 1]
                      ELSE [p EXCEPT !.idx = 0, !.pc = AfterApartments(p)]]
    /\ UNCHANGED <<rooms, neighborhoods, calls, delResult>>
    /\ Forget

_index_neighborhood_claims(a) ==
    /\ proc[a].pc = "neighborhoods"
    /\ LET p == proc[a] IN
        /\ neighborhoods' = IndexDoc(neighborhoods, NeighborhoodDocId(p.nid, p.idx),
                                     NeighborhoodDoc(a, p, p.idx))
        /\ proc' = [proc EXCEPT ![a] =
                      IF p.idx + 1 < p.nnb
                      THEN [p EXCEPT !.idx = p.idx + 1]
                      ELSE [p EXCEPT !.idx = 0, !.pc = "refresh"]]
    /\ UNCHANGED <<rooms, apartments, calls, delResult>>
    /\ Forget

\* The three indices.refresh calls that end _index_to_elasticsearch.
Refresh(a) ==
    /\ proc[a].pc = "refresh"
    /\ proc' = [proc EXCEPT ![a].pc = "enrich"]
    /\ UNCHANGED <<rooms, apartments, neighborhoods, calls, delResult>>
    /\ Forget

\* _enrich_apartment / _update_elasticsearch_summaries, then _build_result.
\* The update is skipped without an apartment-domain claim or with an empty
\* update body; a failing update is logged and swallowed.
_update_elasticsearch_summaries(a) ==
    /\ proc[a].pc = "enrich"
    /\ \E hasBody \in BOOLEAN :
        LET p == proc[a]
            id == ApartmentDocId(a, 0)
            doUpdate == p.napt > 0 /\ hasBody /\ id \in DOMAIN apartments
        IN
        /\ apartments' = IF doUpdate
                         THEN [apartments EXCEPT ![id].property_summary = TRUE]
                         ELSE apartments
        /\ proc' = [proc EXCEPT ![a] = [p EXCEPT !.pc = "done",
                                                 !.summary = doUpdate,
                                                 !.result = _build_result(p)]]
    /\ UNCHANGED <<rooms, neighborhoods, calls, delResult>>
    /\ Forget

\* ------------------------------------------------------------ CRUD service
GetApartmentSize == 100
GetRoomsSize == 200

Min(x, y) == IF x < y THEN x ELSE y

\* CrudService.delete_apartment: delete_by_query on the term apartment_id in
\* the apartments, neighborhoods and rooms indices, refresh, per-index counts.
\* The request is taken when no indexing call for the same id is running.
delete_apartment(a) ==
    /\ proc[a].pc \in {"idle", "done"}
    /\ apartments' = DeleteByQuery(apartments, a)
    /\ neighborhoods' = DeleteByQuery(neighborhoods, a)
    /\ rooms' = DeleteByQuery(rooms, a)
    /\ delResult' = [delResult EXCEPT ![a] =
            [status |-> "success",
             total_deleted |-> DeletedCount(apartments, a)
                               + DeletedCount(neighborhoods, a)
                               + DeletedCount(rooms, a)]]
    /\ proc' = [proc EXCEPT ![a] = IdleProc]
    /\ UNCHANGED calls
    /\ Forget

\* The hits of {"term": {"apartment_id": id}} on an index.
TermHits(index, id) == {y \in DOMAIN index : TermApartmentId(index[y], id)}

\* CrudService.get_apartment: None when the apartments index has no document
\* of the id; otherwise the claims are the hits of the term query on
\* apartment_id in the apartments, neighborhoods and rooms indices.
get_apartment(a) ==
    LET apartmentHits == Min(Cardinality(TermHits(apartments, a)), GetApartmentSize)
        neighborhoodHits == Min(Cardinality(TermHits(neighborhoods, a)), GetApartmentSize)
        roomHits == Min(Cardinality(TermHits(rooms, a)), GetRoomsSize)
    IN IF apartmentHits = 0
       THEN [found |-> FALSE, total_claims |-> 0]
       ELSE [found |-> TRUE,
             total_claims |-> apartmentHits + neighborhoodHits + roomHits]

GetApartment(a) ==
    /\ \A b \in Apts : proc[b].pc \in {"idle", "done"}
    /\ got' = [id |-> a,
               indexed |-> proc[a].pc = "done",
               result |-> proc[a].result,
               response |-> get_apartment(a)]
    /\ found' = NoSearch
    /\ UNCHANGED <<rooms, apartments, neighborhoods, proc, calls, delResult,
                   input, output, visionVars>>

\* ------------------------------------------------- quantifier validation
MaxSearchQ == 1
MaxMatchedQ == 2

QuantifierOps == {"EQUALS", "GT", "GTE", "LT", "LTE", "APPROX", "RANGE"}
QuantifierValues == {1, 2}

\* Quantifier objects of a search claim and the quantifier dicts of a stored
\* document.  A stored dict always holds numbers for vmin and vmax
\* (_serialize_quantifiers dumps the floats of the Quantifier model), so the
\* branch of validate_quantifiers for a missing vmin or vmax is never taken.
SearchQuantifiers ==
    [qtype : {"count"}, noun : {"bedroom", "bathroom"},
     vmin : QuantifierValues, vmax : QuantifierValues, op : QuantifierOps]
MatchedQuantifiers ==
    [qtype : {"count"}, noun : {"bedroom", "bathroom"},
     vmin : QuantifierValues, vmax : QuantifierValues, op : {"EQUALS"}]

SeqsUpTo(S, n) == UNION {[1..k -> S] : k \in 0..n}

\* The if / elif chain on search_q.op.
OpHoldsGtAsGte(op, search_q, matched_vmin, matched_vmax) ==
    CASE op = "GTE" -> matched_vmin >= search_q.vmin
      [] op = "LTE" -> matched_vmax <= search_q.vmax
      [] op = "GT" -> matched_vmin >= search_q.vmin
      [] op = "LT" -> matched_vmax < search_q.vmax
      [] op = "EQUALS" -> matched_vmin <= search_q.vmin /\ search_q.vmin <= matched_vmax
      [] op = "RANGE" -> ~(matched_vmax < search_q.vmin \/ matched_vmin > search_q.vmax)
      [] op = "APPROX" -> matched_vmin <= search_q.vmin /\ search_q.vmin <= matched_vmax
      [] OTHER -> FALSE

OpHolds(op, search_q, matched_vmin, matched_vmax) ==
    CASE op = "GTE" -> matched_vmin >= search_q.vmin
      [] op = "LTE" -> matched_vmax <= search_q.vmax
      [] op = "GT" -> matched_vmin > search_q.vmin
      [] op = "LT" -> matched_vmax < search_q.vmax
      [] op = "EQUALS" -> matched_vmin <= search_q.vmin /\ search_q.vmin <= matched_vmax
      [] op = "RANGE" -> ~(matched_vmax < search_q.vmin \/ matched_vmin > search_q.vmax)
      [] op = "APPROX" -> matched_vmin <= search_q.vmin /\ search_q.vmin <= matched_vmax
      [] OTHER -> FALSE

\* The inner loop: the index of the first matched quantifier with the qtype
\* and noun of search_q (the loop breaks there), 0 when there is none.
RECURSIVE MatchedQForNoun(_, _, _)
MatchedQForNoun(search_q, matched_quantifiers, i) ==
    IF i > Len(matched_quantifiers) THEN 0
    ELSE IF matched_quantifiers[i].qtype = search_q.qtype
            /\ matched_quantifiers[i].noun = search_q.noun
         THEN i
         ELSE MatchedQForNoun(search_q, matched_quantifiers, i + 1)

\* The outer loop from the i-th search quantifier on: continue when no
\* matched quantifier is found, return False at the first failing predicate.
RECURSIVE ValidateFrom(_, _, _)
ValidateFrom(quantifiers, matched_quantifiers, i) ==
    IF i > Len(quantifiers) THEN TRUE
    ELSE LET search_q == quantifiers[i]
             k == MatchedQForNoun(search_q, matched_quantifiers, 1)
         IN IF k = 0
            THEN ValidateFrom(quantifiers, matched_quantifiers, i + 1)
            ELSE IF ~OpHolds(search_q.op, search_q, matched_quantifiers[k].vmin,
                             matched_quantifiers[k].vmax)
                 THEN FALSE
                 ELSE ValidateFrom(quantifiers, matched_quantifiers, i + 1)

\* ClaimValidator.validate_quantifiers
validate_quantifiers(search_claim, matched_quantifiers) ==
    IF Len(search_claim.quantifiers) = 0 THEN TRUE
    ELSE IF Len(matched_quantifiers) = 0 THEN TRUE
    ELSE ValidateFrom(search_claim.quantifiers, matched_quantifiers, 1)

\* ---------------------------------------------------------- search: gates
\* A dict of the code is a function whose DOMAIN is the set of its keys;
\* a list is a sequence.  dict.get(key, []) :
Get(dict, key) == IF key \in DOMAIN dict THEN dict[key] ELSE <<>>

RECURSIVE SetToSeq(_)
SetToSeq(S) ==
    IF S = {} THEN <<>>
    ELSE LET x == CHOOSE y \in S : TRUE IN <<x>> \o SetToSeq(S \ {x})

RECURSIVE ConcatValues(_, _)
ConcatValues(dict, keys) ==
    IF Len(keys) = 0 THEN <<>>
    ELSE dict[Head(keys)] \o ConcatValues(dict, Tail(keys))

MaxOf(S, default) ==
    IF S = {} THEN default
    ELSE LET x == CHOOSE y \in S : \A z \in S : y >= z IN x

ANTI_CLAIM_THRESHOLD == 900000

\* The range clause on rent_price of the structured filters; a document
\* without the field does not match.
RentClause(doc, structured_filters) ==
    IF "rent_price" \in DOMAIN structured_filters
    THEN LET rent_filter == structured_filters.rent_price IN
         /\ "rent_price" \in DOMAIN doc
         /\ ("min" \in DOMAIN rent_filter => doc.rent_price >= rent_filter.min)
         /\ ("max" \in DOMAIN rent_filter => doc.rent_price <= rent_filter.max)
    ELSE TRUE

\* The apartments-index query of filter_by_hierarchy: the apartment ids of the
\* documents whose neighborhood_id is one of the matched neighborhood ids
\* (a null neighborhood_id matches no term) and that pass the filters.
NeighborhoodApartmentIds(index, neighborhood_matches, structured_filters) ==
    {index[d].apartment_id : d \in {x \in DOMAIN index :
        /\ index[x].neighborhood_id # NoneId
        /\ index[x].neighborhood_id \in DOMAIN neighborhood_matches
        /\ RentClause(index[x], structured_filters)}}

_apply_structured_filters_globally(index, structured_filters) ==
    IF "rent_price" \in DOMAIN structured_filters
       /\ DOMAIN structured_filters.rent_price # {}
    THEN {index[d].apartment_id : d \in {x \in DOMAIN index :
              RentClause(index[x], structured_filters)}}
    ELSE {}

\* _filter_by_quantifiers looking only at the first (best-scoring) entry of
\* each quantified search claim.
RECURSIVE FirstEntryFor(_, _, _)
FirstEntryFor(ms, text, k) ==
    IF k > Len(ms) THEN 0
    ELSE IF ms[k].search_claim = text THEN k
    ELSE FirstEntryFor(ms, text, k + 1)

FilterByBestEntryOnly(apts, apartment_matches, room_matches, search_claims) ==
    LET quantified == {i \in 1..Len(search_claims) :
                          Len(search_claims[i].quantifiers) > 0}
    IN {a \in apts :
          LET ms == Get(apartment_matches, a) \o Get(room_matches, a) IN
          ~\E i \in quantified :
              LET k == FirstEntryFor(ms, search_claims[i].claim, 1)
              IN k > 0 /\ ~validate_quantifiers(search_claims[i], ms[k].quantifiers)}

\* _filter_by_quantifiers: an apartment is excluded when one of its apartment
\* or room matches for a quantified search claim fails validate_quantifiers.
_filter_by_quantifiers(apts, apartment_matches, room_matches, search_claims) ==
    LET quantified == {i \in 1..Len(search_claims) :
                          Len(search_claims[i].quantifiers) > 0}
    IN IF quantified = {} THEN apts
       ELSE {a \in apts :
              LET ms == Get(apartment_matches, a) \o Get(room_matches, a) IN
              ~\E i \in quantified, k \in 1..Len(ms) :
                  /\ ms[k].search_claim = search_claims[i].claim
                  /\ ~validate_quantifiers(search_claims[i], ms[k].quantifiers)}

\* The first half of filter_by_hierarchy with the room keys added to the
\* apartment keys instead of intersected with them.
HierarchyUnion(index, room_matches, apartment_matches, neighborhood_matches, structured_filters) ==
    LET v2 == IF DOMAIN apartment_matches \cup DOMAIN room_matches # {}
              THEN [none |-> FALSE, ids |-> DOMAIN apartment_matches \cup DOMAIN room_matches]
              ELSE [none |-> TRUE, ids |-> {}]
        nb == NeighborhoodApartmentIds(index, neighborhood_matches, structured_filters)
        v3 == IF DOMAIN neighborhood_matches # {}
              THEN IF v2.none THEN [none |-> FALSE, ids |-> nb]
                   ELSE [none |-> FALSE, ids |-> v2.ids \cap nb]
              ELSE v2
    IN IF DOMAIN structured_filters # {} /\ v3.none
       THEN [none |-> FALSE,
             ids |-> _apply_structured_filters_globally(index, structured_filters)]
       ELSE v3

\* filter_by_hierarchy up to the quantifier gate: valid_apartments after the
\* three intersections and the filters-only query; none stands for None.
HierarchyIntersection(index, room_matches, apartment_matches, neighborhood_matches, structured_filters) ==
    LET v1 == IF DOMAIN apartment_matches # {}
              THEN [none |-> FALSE, ids |-> DOMAIN apartment_matches]
              ELSE [none |-> TRUE, ids |-> {}]
        v2 == IF DOMAIN room_matches # {}
              THEN IF v1.none THEN [none |-> FALSE, ids |-> DOMAIN room_matches]
                   ELSE [none |-> FALSE, ids |-> v1.ids \cap DOMAIN room_matches]
              ELSE v1
        nb == NeighborhoodApartmentIds(index, neighborhood_matches, structured_filters)
        v3 == IF DOMAIN neighborhood_matches # {}
              THEN IF v2.none THEN [none |-> FALSE, ids |-> nb]
                   ELSE [none |-> FALSE, ids |-> v2.ids \cap nb]
              ELSE v2
    IN IF DOMAIN structured_filters # {} /\ v3.none
       THEN [none |-> FALSE,
             ids |-> _apply_structured_filters_globally(index, structured_filters)]
       ELSE v3

\* SearchFilters.filter_by_hierarchy
filter_by_hierarchy(index, room_matches, apartment_matches, neighborhood_matches, search_claims, structured_filters) ==
    LET v4 == HierarchyIntersection(index, room_matches, apartment_matches,
                                    neighborhood_matches, structured_filters)
    IN IF v4.ids # {} /\ Len(search_claims) > 0
       THEN _filter_by_quantifiers(v4.ids, apartment_matches, room_matches, search_claims)
       ELSE v4.ids

\* The test of one search claim's group in filter_by_anti_claims.
AntiDominates(best_anti_score, best_positive_score, anti_claim_threshold) ==
    /\ ~(best_anti_score < anti_claim_threshold)
    /\ best_anti_score > best_positive_score

\* all_matches of one apartment in filter_by_anti_claims: its room matches,
\* its apartment matches and the matches of every key of neighborhood_matches.
AntiGateMatches(a, room_matches, apartment_matches, neighborhood_matches) ==
    Get(room_matches, a) \o Get(apartment_matches, a)
        \o ConcatValues(neighborhood_matches, SetToSeq(DOMAIN neighborhood_matches))

\* matches_by_search_claim: per search claim text the scores of its anti and
\* of its other matches, and the texts in the order of first appearance.
RECURSIVE GroupBySearchClaim(_, _, _)
GroupBySearchClaim(all_matches, i, acc) ==
    IF i > Len(all_matches) THEN acc
    ELSE LET m == all_matches[i]
             g == m.search_claim
             old == IF g \in DOMAIN acc.groups THEN acc.groups[g]
                    ELSE [anti |-> <<>>, positive |-> <<>>]
             new == IF m.kind = "anti"
                    THEN [old EXCEPT !.anti = Append(@, m.score)]
                    ELSE [old EXCEPT !.positive = Append(@, m.score)]
         IN GroupBySearchClaim(all_matches, i + 1,
              [keys |-> IF g \in DOMAIN acc.groups THEN acc.keys
                        ELSE Append(acc.keys, g),
               groups |-> [x \in DOMAIN acc.groups \cup {g} |->
                             IF x = g THEN new ELSE acc.groups[x]]])

RECURSIVE SeqMax(_, _)
SeqMax(seq, default) ==
    IF Len(seq) = 0 THEN default
    ELSE LET rest == SeqMax(Tail(seq), default)
         IN IF Len(seq) = 1 \/ Head(seq) >= rest THEN Head(seq) ELSE rest

\* The loop over the groups: continue without anti matches or below the
\* threshold, exclude the apartment and break when the anti score dominates.
RECURSIVE AntiLoop(_, _, _)
AntiLoop(keys, groups, anti_claim_threshold) ==
    IF Len(keys) = 0 THEN FALSE
    ELSE LET grouped_matches == groups[Head(keys)] IN
         IF Len(grouped_matches.anti) = 0
         THEN AntiLoop(Tail(keys), groups, anti_claim_threshold)
         ELSE IF AntiDominates(SeqMax(grouped_matches.anti, 0),
                               SeqMax(grouped_matches.positive, 0),
                               anti_claim_threshold)
              THEN TRUE
              ELSE AntiLoop(Tail(keys), groups, anti_claim_threshold)

\* SearchFilters.filter_by_anti_claims
filter_by_anti_claims(apts, room_matches, apartment_matches, neighborhood_matches, anti_claim_threshold) ==
    LET excluded_apartments ==
          {a \in apts :
             LET all_matches == AntiGateMatches(a, room_matches, apartment_matches,
                                                neighborhood_matches)
                 by == GroupBySearchClaim(all_matches, 1,
                                          [keys |-> <<>>, groups |-> <<>>])
             IN AntiLoop(by.keys, by.groups, anti_claim_threshold)}
    IN apts \ excluded_apartments

\* --------------------------------------------------------- search: scorer
\* CLAIM_TYPE_THRESHOLDS, in units of 10^-6.
CLAIM_TYPE_THRESHOLDS(claim_type) ==
    CASE claim_type = "location" -> 920000
      [] claim_type = "size" -> 800000
      [] claim_type = "features" -> 750000
      [] claim_type = "pricing" -> 850000
      [] claim_type = "amenities" -> 700000
      [] claim_type = "condition" -> 750000
      [] claim_type = "accessibility" -> 750000
      [] claim_type = "policies" -> 800000
      [] claim_type = "utilities" -> 750000
      [] claim_type = "transport" -> 750000
      [] claim_type = "neighborhood" -> 730000
      [] claim_type = "restrictions" -> 800000
      [] OTHER -> 750000

\* DOMAIN_WEIGHTS, in hundredths.
DOMAIN_WEIGHTS(domain) ==
    CASE domain = "room" -> 35
      [] domain = "apartment" -> 40
      [] domain = "neighborhood" -> 25

SPECIFIC_LOCATION_THRESHOLD == 900000
STRONG_ANTI_SCORE == 850000
MIN_FINAL_SCORE == 50000

\* compatibility_cache.get(pair, "compatible")
Compatibility(compatibility_cache, pair) ==
    IF pair \in DOMAIN compatibility_cache THEN compatibility_cache[pair]
    ELSE "compatible"

\* apply_match_validation with the penalties stacked instead of chained by
\* elif: every penalty that applies is taken.
ApplyStackedPenalties(match, compatibility_cache, double_check_matches) ==
    LET search_claim_obj == match.search_claim_obj
        threshold == IF search_claim_obj.is_specific
                        /\ search_claim_obj.claim_type = "location"
                     THEN SPECIFIC_LOCATION_THRESHOLD
                     ELSE CLAIM_TYPE_THRESHOLDS(match.claim_type)
        is_valid == validate_quantifiers(search_claim_obj, match.quantifiers)
        s1 == IF ~is_valid THEN match.score \div 10 ELSE match.score
        s2 == IF match.kind = "anti" /\ match.score >= STRONG_ANTI_SCORE
              THEN s1 \div 100
              ELSE IF match.kind = "anti" THEN s1 \div 20 ELSE s1
        penalised == IF search_claim_obj.negation # match.matched_negation
                     THEN s2 \div 10 ELSE s2
        compatibility == Compatibility(compatibility_cache,
                                       <<match.search_claim, match.matched_claim>>)
    IN IF ~double_check_matches /\ match.score < threshold
       THEN [score |-> 0, valid |-> FALSE]
       ELSE IF compatibility = "incompatible" THEN [score |-> 0, valid |-> FALSE]
       ELSE IF compatibility = "partial"
            THEN [score |-> penalised \div 2, valid |-> TRUE]
       ELSE [score |-> penalised, valid |-> TRUE]

\* ResultScorer.apply_match_validation: (validated score, is_valid).
apply_match_validation(match, compatibility_cache, double_check_matches) ==
    LET search_claim_obj == match.search_claim_obj
        threshold == IF search_claim_obj.is_specific
                        /\ search_claim_obj.claim_type = "location"
                     THEN SPECIFIC_LOCATION_THRESHOLD
                     ELSE CLAIM_TYPE_THRESHOLDS(match.claim_type)
        is_valid == validate_quantifiers(search_claim_obj, match.quantifiers)
        penalised ==
            IF ~is_valid THEN match.score \div 10
            ELSE IF match.kind = "anti" /\ match.score >= STRONG_ANTI_SCORE
                 THEN match.score \div 100
            ELSE IF match.kind = "anti" THEN match.score \div 20
            ELSE IF search_claim_obj.negation # match.matched_negation
                 THEN match.score \div 10
            ELSE match.score
        compatibility == Compatibility(compatibility_cache,
                                       <<match.search_claim, match.matched_claim>>)
    IN IF ~double_check_matches /\ match.score < threshold
       THEN [score |-> 0, valid |-> FALSE]
       ELSE IF compatibility = "incompatible" THEN [score |-> 0, valid |-> FALSE]
       ELSE IF compatibility = "partial"
            THEN [score |-> penalised \div 2, valid |-> TRUE]
       ELSE [score |-> penalised, valid |-> TRUE]

\* ResultScorer.get_validated_best_matches: per search claim text the first
\* match with the highest validated score among the valid ones.
RECURSIVE ValidatedBestFrom(_, _, _, _, _)
ValidatedBestFrom(all_matches, i, compatibility_cache, double_check_matches, acc) ==
    IF i > Len(all_matches) THEN acc
    ELSE LET match == all_matches[i]
             v == apply_match_validation(match, compatibility_cache, double_check_matches)
             search_claim == match.search_claim
         IN IF ~v.valid \/ v.score <= 0
            THEN ValidatedBestFrom(all_matches, i + 1, compatibility_cache,
                                   double_check_matches, acc)
            ELSE IF search_claim \notin DOMAIN acc
                    \/ v.score > acc[search_claim].validated_score
                 THEN ValidatedBestFrom(all_matches, i + 1, compatibility_cache,
                        double_check_matches,
                        [x \in DOMAIN acc \cup {search_claim} |->
                            IF x = search_claim
                            THEN [match |-> match, validated_score |-> v.score]
                            ELSE acc[x]])
                 ELSE ValidatedBestFrom(all_matches, i + 1, compatibility_cache,
                                        double_check_matches, acc)

get_validated_best_matches(all_matches, compatibility_cache, double_check_matches) ==
    ValidatedBestFrom(all_matches, 1, compatibility_cache, double_check_matches, <<>>)

RECURSIVE SumValidated(_, _)
SumValidated(validated_matches, keys) ==
    IF keys = {} THEN 0
    ELSE LET k == CHOOSE x \in keys : TRUE
         IN validated_matches[k].validated_score
            + SumValidated(validated_matches, keys \ {k})

\* ResultScorer.calculate_score_from_validated_matches; search_claims is the
\* list of search claims the caller passes.
ScoreOverOneMore(validated_matches, search_claims) ==
    IF Len(search_claims) = 0 \/ DOMAIN validated_matches = {} THEN 0
    ELSE SumValidated(validated_matches, DOMAIN validated_matches)
            \div (Len(search_claims) + 1)

calculate_score_from_validated_matches(validated_matches, search_claims) ==
    IF Len(search_claims) = 0 \/ DOMAIN validated_matches = {} THEN 0
    ELSE SumValidated(validated_matches, DOMAIN validated_matches)
            \div Len(search_claims)

ClaimsOfDomain(search_claims, domain) ==
    SelectSeq(search_claims, LAMBDA c : c.domain = domain)

\* ResultScorer.normalize_domain_weights: the sum of the weights of the
\* domains that have search claims (each weight is divided by it).
ActiveWeight(search_claims, domain) ==
    IF Len(ClaimsOfDomain(search_claims, domain)) > 0 THEN DOMAIN_WEIGHTS(domain) ELSE 0

\* ResultScorer.fetch_apartment_metadata: the neighborhood_id of a document of
\* the apartment in the apartments index, NoneId without one.
MetadataNeighborhoodId(index, a) ==
    LET docs == {d \in DOMAIN index : index[d].apartment_id = a}
    IN IF docs = {} THEN NoneId
       ELSE index[CHOOSE d \in docs : TRUE].neighborhood_id

\* The body of the scoring loop of rank_results for one apartment.
ScoreApartment(index, a, room_matches, apartment_matches, neighborhood_matches, search_claims, compatibility_cache, double_check_matches) ==
    LET nid == MetadataNeighborhoodId(index, a)
        all_neighborhood_matches_for_apt ==
            IF nid # NoneId /\ nid \in DOMAIN neighborhood_matches
            THEN neighborhood_matches[nid] ELSE <<>>
        validated_room == get_validated_best_matches(Get(room_matches, a),
                              compatibility_cache, double_check_matches)
        validated_apt == get_validated_best_matches(Get(apartment_matches, a),
                              compatibility_cache, double_check_matches)
        validated_neighborhood == get_validated_best_matches(
                              all_neighborhood_matches_for_apt,
                              compatibility_cache, double_check_matches)
        room_score == calculate_score_from_validated_matches(validated_room,
                              ClaimsOfDomain(search_claims, "room"))
        apt_score == calculate_score_from_validated_matches(validated_apt,
                              ClaimsOfDomain(search_claims, "apartment"))
        neighborhood_score == calculate_score_from_validated_matches(
                              validated_neighborhood,
                              ClaimsOfDomain(search_claims, "neighborhood"))
        weight_sum == ActiveWeight(search_claims, "room")
                      + ActiveWeight(search_claims, "apartment")
                      + ActiveWeight(search_claims, "neighborhood")
        final_score ==
            IF weight_sum = 0 THEN 0
            ELSE (ActiveWeight(search_claims, "room") * room_score
                  + ActiveWeight(search_claims, "apartment") * apt_score
                  + ActiveWeight(search_claims, "neighborhood") * neighborhood_score)
                 \div weight_sum
    IN [apartment_id |-> a,
        final_score |-> final_score,
        coverage_count |-> Cardinality(DOMAIN validated_room \cup DOMAIN validated_apt
                                       \cup DOMAIN validated_neighborhood),
        domain_scores |-> [room |-> room_score, apartment |-> apt_score,
                           neighborhood |-> neighborhood_score]]

\* The filter at the end of rank_results.
KeepResultIgnoringMode(r, double_check_matches) ==
    r.final_score > MIN_FINAL_SCORE /\ r.coverage_count > 0

KeepResult(r, double_check_matches) ==
    IF double_check_matches THEN r.coverage_count > 0
    ELSE r.final_score > MIN_FINAL_SCORE /\ r.coverage_count > 0

\* list.sort(key=(coverage_count, final_score), reverse=True): stable.
BeforeOrTied(r1, r2) ==
    \/ r1.coverage_count > r2.coverage_count
    \/ r1.coverage_count = r2.coverage_count /\ r1.final_score >= r2.final_score

Before(r1, r2) ==
    \/ r1.coverage_count > r2.coverage_count
    \/ r1.coverage_count = r2.coverage_count /\ r1.final_score > r2.final_score

RECURSIVE InsertSorted(_, _)
InsertSorted(sorted, r) ==
    IF Len(sorted) = 0 THEN <<r>>
    ELSE IF Before(r, Head(sorted)) THEN <<r>> \o sorted
    ELSE <<Head(sorted)>> \o InsertSorted(Tail(sorted), r)

RECURSIVE SortResults(_, _)
SortResults(list, i) ==
    IF i = 0 THEN <<>> ELSE InsertSorted(SortResults(list, i - 1), list[i])

\* ResultScorer.rank_results; order is the iteration order of the set
\* filtered_apartments.  scored is the list `ranked` before the filter.
rank_results(index, order, room_matches, apartment_matches, neighborhood_matches, search_claims, compatibility_cache, double_check_matches) ==
    LET ranked == [i \in 1..Len(order) |->
                      ScoreApartment(index, order[i], room_matches, apartment_matches,
                                     neighborhood_matches, search_claims,
                                     compatibility_cache, double_check_matches)]
        filtered_results == SelectSeq(ranked,
                                LAMBDA r : KeepResult(r, double_check_matches))
    IN [scored |-> ranked,
        results |-> SortResults(filtered_results, Len(filtered_results))]

\* The iteration orders of a set.
Orders(S) == {o \in [1..Cardinality(S) -> S] :
                 \A i, j \in 1..Cardinality(S) : i # j => o[i] # o[j]}

\* ------------------------------------------------------ search: pipeline
\* list[:top_k] of Python: the first top_k elements, all of them when there
\* are fewer; a negative top_k drops the last -top_k elements.
Slice(list, top_k) ==
    LET n == IF top_k >= 0 THEN Min(top_k, Len(list))
             ELSE IF Len(list) + top_k > 0 THEN Len(list) + top_k ELSE 0
    IN SubSeq(list, 1, n)

\* The default of the top_k parameter of search.
DEFAULT_TOP_K == 10

\* The claims the extraction phases yield for a query, one per entry of
\* kinds: a neighborhood-domain claim, an apartment-domain policies claim, a
\* room-domain features claim or an apartment-domain pricing claim.
DomainOfKind(kind) == IF kind = "pricing" THEN "apartment" ELSE kind

TypeOfDomain(domain) ==
    CASE domain = "room" -> "features"
      [] domain = "apartment" -> "policies"
      [] domain = "neighborhood" -> "neighborhood"
      [] domain = "pricing" -> "pricing"

SearchClaims(shape) ==
    [i \in 1..Len(shape) |->
        [claim |-> <<"query", i>>, domain |-> DomainOfKind(shape[i]),
         claim_type |-> TypeOfDomain(shape[i]), is_specific |-> FALSE,
         negation |-> FALSE, quantifiers |-> <<>>]]

\* A claim text is a sequence of pieces (words, separators, parts of a word);
\* str.lower folds each piece.
Lower(piece) ==
    CASE piece = "Available" -> "available"
      [] piece = "Move" -> "move"
      [] OTHER -> piece

LowerText(text) == [i \in 1..Len(text) |-> Lower(text[i])]

\* keyword in text: the keyword is a contiguous part of the text.
IsSubstring(keyword, text) ==
    \E i \in 0..(Len(text) - Len(keyword)) :
        SubSeq(text, i + 1, i + Len(keyword)) = keyword

availability_keywords ==
    << <<"available">>, <<"availability">>, <<"lease", " ", "start">>,
       <<"move-in", " ", "date">>, <<"move", " ", "in">> >>

HasAvailabilityKeyword(text) ==
    \E k \in 1..Len(availability_keywords) :
        IsSubstring(availability_keywords[k], LowerText(text))

\* The filter with the keyword test left out.
FilterWithoutKeywordTest(search_claims, structured_filters) ==
    SelectSeq(search_claims,
              LAMBDA c :
                /\ ~(c.claim_type = "pricing"
                     /\ "rent_price" \in DOMAIN structured_filters)
                /\ ~(c.claim_type = "restrictions"
                     /\ "availability_dates" \in DOMAIN structured_filters))

\* SearchPipeline._filter_redundant_claims: a pricing claim is dropped when
\* the structured filters carry rent_price, a restrictions claim when they
\* carry availability_dates and its text holds an availability keyword.
_filter_redundant_claims(search_claims, structured_filters) ==
    SelectSeq(search_claims,
              LAMBDA c :
                /\ ~(c.claim_type = "pricing"
                     /\ "rent_price" \in DOMAIN structured_filters)
                /\ ~(/\ c.claim_type = "restrictions"
                     /\ "availability_dates" \in DOMAIN structured_filters
                     /\ HasAvailabilityKeyword(c.claim)))

\* The _score of a kNN hit: the indexed claims are close to the query claim.
HitScore == 950000

\* The matches a searcher appends under one key: claim by claim, hit by hit.
RECURSIVE KeyMatches(_, _, _, _)
KeyMatches(index, docs, claims, i) ==
    IF i > Len(claims) THEN <<>>
    ELSE [j \in 1..Len(docs) |->
            [search_claim |-> claims[i].claim,
             search_claim_obj |-> claims[i],
             matched_claim |-> index[docs[j]].claim,
             score |-> HitScore,
             kind |-> "base",
             claim_type |-> claims[i].claim_type,
             quantifiers |-> <<>>,
             matched_negation |-> FALSE]]
         \o KeyMatches(index, docs, claims, i + 1)

\* all_matches of a searcher whose kNN query hits the documents `hits`,
\* grouped by keyOf.
SearcherMatches(index, hits, keyOf, claims) ==
    [k \in {keyOf[d] : d \in hits} |->
        KeyMatches(index, SetToSeq({d \in hits : keyOf[d] = k}), claims, 1)]

RoomSearcher(claims) ==
    SearcherMatches(rooms, DOMAIN rooms,
                    [d \in DOMAIN rooms |-> rooms[d].apartment_id], claims)

ApartmentSearcher(claims, structured_filters) ==
    SearcherMatches(apartments,
                    {d \in DOMAIN apartments :
                        RentClause(apartments[d], structured_filters)},
                    [d \in DOMAIN apartments |-> apartments[d].apartment_id], claims)

NeighborhoodSearcher(claims) ==
    SearcherMatches(neighborhoods, DOMAIN neighborhoods,
                    [d \in DOMAIN neighborhoods |-> neighborhoods[d].neighborhood_id],
                    claims)

\* The queries: what the extraction phases yield for them.
QueryKinds == {<<"pricing">>, <<"neighborhood">>, <<"room", "neighborhood">>}

\* SearchPipeline.search with verify_claims=false and the default top_k, on a
\* store no indexing call is writing to.
Search ==
    /\ \A b \in Apts : proc[b].pc \in {"idle", "done"}
    /\ \E kinds \in QueryKinds, hasRent \in BOOLEAN, double_check_matches \in BOOLEAN :
        LET structured_filters ==
                IF hasRent THEN [rent_price |-> [max |-> 2000]] ELSE <<>>
            search_claims == _filter_redundant_claims(SearchClaims(kinds),
                                                      structured_filters)
            room_claims == ClaimsOfDomain(search_claims, "room")
            apt_claims == ClaimsOfDomain(search_claims, "apartment")
            neighborhood_claims == ClaimsOfDomain(search_claims, "neighborhood")
            room_matches ==
                IF Len(room_claims) > 0 THEN RoomSearcher(room_claims) ELSE <<>>
            apartment_matches ==
                IF Len(apt_claims) > 0
                THEN ApartmentSearcher(apt_claims, structured_filters) ELSE <<>>
            neighborhood_matches ==
                IF Len(neighborhood_claims) > 0
                THEN NeighborhoodSearcher(neighborhood_claims) ELSE <<>>
            valid_apartments ==
                filter_by_hierarchy(apartments, room_matches, apartment_matches,
                                    neighborhood_matches, search_claims,
                                    structured_filters)
            filtered_apartments ==
                filter_by_anti_claims(valid_apartments, room_matches,
                                      apartment_matches, neighborhood_matches,
                                      ANTI_CLAIM_THRESHOLD)
        IN \E order \in Orders(filtered_apartments) :
            found' = [issued |-> TRUE,
                      search_claims |-> search_claims,
                      structured_filters |-> structured_filters,
                      double_check_matches |-> double_check_matches,
                      results |-> Slice(rank_results(apartments, order, room_matches,
                                     apartment_matches, neighborhood_matches,
                                     search_claims, <<>>,
                                     double_check_matches).results, DEFAULT_TOP_K)]
    /\ got' = NoGet
    /\ UNCHANGED <<rooms, apartments, neighborhoods, proc, calls, delResult,
                   input, output, visionVars>>

\* ------------------------------------------------------------------ Init
NoInput == [fn |-> "none"]
NoOutput == [done |-> FALSE]

\* The callers of describe_single_image.
MaxCallers == 2
Callers == 1..MaxCallers

\* VisionService.__init__: an empty window and a free lock.
VisionInit ==
    /\ requests_window = <<>>
    /\ lock = [locked |-> FALSE, waiters |-> <<>>]
    /\ clock = 0
    /\ callers = [c \in Callers |-> [pc |-> "idle", wake_at |-> 0, slept |-> FALSE]]
    /\ admitted = <<>>

\* The state of the store and of the services after construction.
StoreInit ==
    /\ VisionInit
    /\ rooms = <<>>
    /\ apartments = <<>>
    /\ neighborhoods = <<>>
    /\ proc = [a \in Apts |-> IdleProc]
    /\ calls = 0
    /\ delResult = [a \in Apts |-> [status |-> "none", total_deleted |-> 0]]
    /\ got = NoGet
    /\ found = NoSearch

StoreUnchanged ==
    UNCHANGED <<rooms, apartments, neighborhoods, proc, calls, delResult, got, found,
                visionVars>>

Init ==
    /\ StoreInit
    /\ input = NoInput
    /\ output = NoOutput

Next ==
    \/ \E a \in Apts : StartProcess(a)
    \/ \E a \in Apts : _index_room_claims(a)
    \/ \E a \in Apts : _index_apartment_claims(a)
    \/ \E a \in Apts : _index_neighborhood_claims(a)
    \/ \E a \in Apts : Refresh(a)
    \/ \E a \in Apts : _update_elasticsearch_summaries(a)
    \/ \E a \in Apts : delete_apartment(a)

Spec == Init /\ [][Next]_vars

\* ------------------------- the services with requests served one at a time
\* An indexing or delete request that arrives when no indexing call is
\* running; the read requests (get, search) are served in the same states.
Quiescent == \A b \in Apts : proc[b].pc \in {"idle", "done"}

ProcessAlone(a) == Quiescent /\ StartProcess(a)

DeleteAlone(a) == Quiescent /\ delete_apartment(a)

NextServe ==
    \/ \E a \in Apts : ProcessAlone(a)
    \/ \E a \in Apts : _index_room_claims(a)
    \/ \E a \in Apts : _index_apartment_claims(a)
    \/ \E a \in Apts : _index_neighborhood_claims(a)
    \/ \E a \in Apts : Refresh(a)
    \/ \E a \in Apts : _update_elasticsearch_summaries(a)
    \/ \E a \in Apts : DeleteAlone(a)
    \/ \E a \in Apts : GetApartment(a)
    \/ Search

SpecServe == Init /\ [][NextServe]_vars

\* --------------------------------- validate_quantifiers on bounded inputs
InitQuant ==
    /\ StoreInit
    /\ \E qs \in SeqsUpTo(SearchQuantifiers, MaxSearchQ),
          ms \in SeqsUpTo(MatchedQuantifiers, MaxMatchedQ) :
          input = [fn |-> "validate_quantifiers",
                   search_claim |-> [quantifiers |-> qs],
                   matched_quantifiers |-> ms]
    /\ output = NoOutput

ValidateQuantifiers ==
    /\ input.fn = "validate_quantifiers"
    /\ ~output.done
    /\ output' = [done |-> TRUE,
                  is_valid |-> validate_quantifiers(input.search_claim,
                                                    input.matched_quantifiers)]
    /\ UNCHANGED input
    /\ StoreUnchanged

NextQuant == ValidateQuantifiers

SpecQuant == InitQuant /\ [][NextQuant]_vars

\* ----------------------- redundant-claim filtering on bounded query claims
MaxQueryClaims == 2

QueryTexts ==
    {<<"Available", " ", "now">>, <<"un", "available">>, <<"no", " ", "pets">>,
     <<"Move", " ", "in", " ", "ready">>, <<"move-in", " ", "date">>}

QueryClaims ==
    [claim : QueryTexts, claim_type : {"pricing", "restrictions", "features"},
     domain : {"apartment", "neighborhood"}]

FilterKeys == {"rent_price", "availability_dates"}

StructuredFilters(keys) ==
    [k \in keys |-> IF k = "rent_price" THEN [max |-> 2000]
                    ELSE [start |-> "2025-11-01", end |-> "2025-11-30"]]

InitFilter ==
    /\ StoreInit
    /\ \E cs \in SeqsUpTo(QueryClaims, MaxQueryClaims), keys \in SUBSET FilterKeys :
          input = [fn |-> "search", search_claims |-> cs,
                   structured_filters |-> StructuredFilters(keys)]
    /\ output = [done |-> FALSE, stage |-> "extracted"]

FilterRedundantClaims ==
    /\ input.fn = "search" /\ output.stage = "extracted"
    /\ output' = [done |-> FALSE, stage |-> "filtered",
                  search_claims |-> _filter_redundant_claims(input.search_claims,
                                                             input.structured_filters)]
    /\ UNCHANGED input
    /\ StoreUnchanged

\* _execute_domain_searches: each searcher issues one kNN query per claim of
\* its domain, the searchers being awaited in the order room, apartment,
\* neighborhood.
KnnQueries(search_claims) ==
    ClaimsOfDomain(search_claims, "room")
    \o ClaimsOfDomain(search_claims, "apartment")
    \o ClaimsOfDomain(search_claims, "neighborhood")

ExecuteDomainSearches ==
    /\ input.fn = "search" /\ output.stage = "filtered"
    /\ output' = [done |-> TRUE, stage |-> "searched",
                  search_claims |-> output.search_claims,
                  knn_queries |-> KnnQueries(output.search_claims)]
    /\ UNCHANGED input
    /\ StoreUnchanged

NextFilter ==
    \/ FilterRedundantClaims
    \/ ExecuteDomainSearches

SpecFilter == InitFilter /\ [][NextFilter]_vars

\* ------------------------- IndexerPipeline.process under sub-task failures
\* The calls process makes that can fail, by the service that fails.
SubTasks ==
    {"llm_text", "vision", "llm_image", "dedup_embed_io", "dedup_embed_mismatch",
     "structured", "geocode", "ground", "expand", "quantify", "embed_io",
     "embed_mismatch", "store_write", "enrich", "summary_update"}

\* How many of them fail in one call.
MaxFailures == 2

ProcessOutput(stage, n, location) ==
    [done |-> FALSE, stage |-> stage, status |-> "running", cause |-> "none",
     n |-> n, location |-> location, result |-> NoResult]

\* The call returns a result.
Returned(result) ==
    [done |-> TRUE, stage |-> "returned", status |-> "success", cause |-> "none",
     n |-> result.total_features, location |-> FALSE, result |-> result]

\* The call ends with the exception of the failed step.
Raised(cause) ==
    [done |-> TRUE, stage |-> "raised", status |-> "error", cause |-> cause,
     n |-> 0, location |-> FALSE, result |-> NoResult]

InitProcess ==
    /\ StoreInit
    /\ \E failing \in SUBSET SubTasks, document \in BOOLEAN, images \in BOOLEAN,
          address \in BOOLEAN :
          /\ Cardinality(failing) <= MaxFailures
          /\ input = [fn |-> "process", document |-> document, images |-> images,
                      address |-> address, failing |-> failing]
    /\ output = ProcessOutput("called", 0, FALSE)

AtStage(stage) == input.fn = "process" /\ output.stage = stage

\* _extract_claims_from_all_sources: gather(return_exceptions=True) drops
\* the failed tasks; the text yields two claims, the image one. No claim at
\* all ends the call with the empty result.
ExtractClaims ==
    /\ AtStage("called")
    /\ LET fromText == IF input.document /\ "llm_text" \notin input.failing
                       THEN 2 ELSE 0
           fromImage == IF /\ input.images
                           /\ "vision" \notin input.failing
                           /\ "llm_image" \notin input.failing
                        THEN 1 ELSE 0
           n == fromText + fromImage
       IN output' = IF n = 0 THEN Returned(_empty_result)
                    ELSE ProcessOutput("extracted", n, FALSE)
    /\ UNCHANGED input
    /\ StoreUnchanged

\* deduplicate_claims: more than one claim is embedded, and embed_texts
\* logs and re-raises whatever goes wrong.
Deduplicate ==
    /\ AtStage("extracted")
    /\ output' =
         IF output.n <= 1 THEN ProcessOutput("deduplicated", output.n, FALSE)
         ELSE IF "dedup_embed_io" \in input.failing THEN Raised("embedding_io")
         ELSE IF "dedup_embed_mismatch" \in input.failing
         THEN Raised("embedding_mismatch")
         ELSE ProcessOutput("deduplicated", output.n, FALSE)
    /\ UNCHANGED input
    /\ StoreUnchanged

\* _extract_structured_properties and _geocode_address: both swallow their
\* failures; a failed geocoding leaves no location.
StructureAndGeocode ==
    /\ AtStage("deduplicated")
    /\ output' = ProcessOutput("located", output.n,
                               input.address /\ "geocode" \notin input.failing)
    /\ UNCHANGED input
    /\ StoreUnchanged

\* _ground_claims: with a location a grounding that works adds one verified
\* claim; a failed one adds nothing.
GroundStep ==
    /\ AtStage("located")
    /\ output' = ProcessOutput("grounded",
                               IF output.location /\ "ground" \notin input.failing
                               THEN output.n + 1 ELSE output.n,
                               output.location)
    /\ UNCHANGED input
    /\ StoreUnchanged

\* expand_claims and extract_quantifiers: gather(return_exceptions=True), the
\* failed claim keeps what it had.
ExpandAndQuantify ==
    /\ AtStage("grounded")
    /\ output' = ProcessOutput("quantified",
                               IF "expand" \notin input.failing
                               THEN output.n + 1 ELSE output.n,
                               output.location)
    /\ UNCHANGED input
    /\ StoreUnchanged

\* _embed_claims
EmbedStep ==
    /\ AtStage("quantified")
    /\ output' =
         IF "embed_io" \in input.failing THEN Raised("embedding_io")
         ELSE IF "embed_mismatch" \in input.failing THEN Raised("embedding_mismatch")
         ELSE ProcessOutput("embedded", output.n, output.location)
    /\ UNCHANGED input
    /\ StoreUnchanged

\* _index_to_elasticsearch
WriteStep ==
    /\ AtStage("embedded")
    /\ output' =
         IF "store_write" \in input.failing THEN Raised("store_write")
         ELSE ProcessOutput("written", output.n, output.location)
    /\ UNCHANGED input
    /\ StoreUnchanged

\* _enrich_apartment: the summaries and their update swallow their failures.
EnrichStep ==
    /\ AtStage("written")
    /\ output' = Returned(_build_result([nroom |-> 0, napt |-> output.n, nnb |-> 0]))
    /\ UNCHANGED input
    /\ StoreUnchanged

NextProcess ==
    \/ ExtractClaims
    \/ Deduplicate
    \/ StructureAndGeocode
    \/ GroundStep
    \/ ExpandAndQuantify
    \/ EmbedStep
    \/ WriteStep
    \/ EnrichStep

SpecProcess == InitProcess /\ [][NextProcess]_vars

\* ----------------------------- expansion and quantifier extraction
MaxBaseClaims == 2

ExpandTypes == {"restrictions", "policies", "neighborhood", "features"}

\* The text of the i-th base claim, of what the LLM derives from it, and of
\* its quantifier-templated form ("lease VAR_1" for "lease 12 months").
BaseText(i) == <<"base", i>>
DerivedText(i) == <<"derived", i>>
AntiText(i) == <<"anti", i>>
QuantifiedText(i) == <<"quantified", i>>
NoText == <<"None", 0>>

\* The base claims of a listing after deduplication: different texts.
BaseClaimFields ==
    [claim_type : ExpandTypes, negation : BOOLEAN, has_quantifiers : BOOLEAN]

BaseClaim(i, f) ==
    [claim |-> BaseText(i), claim_type |-> f.claim_type, kind |-> "base",
     from_claim |-> NoText, negation |-> f.negation,
     has_quantifiers |-> f.has_quantifiers, quantified |-> FALSE]

\* What the LLM answers for one claim: the expansion call fails or returns
\* its two arrays, each empty or not; the quantifier call fails, finds no
\* quantifier, or returns a templated text with quantifiers.
ExpansionResponses == [ok : BOOLEAN, derived_claims : BOOLEAN, anti_claims : BOOLEAN]
QuantifierResponses == {"error", "none", "templated"}

\* ExpansionService._get_expansion_strategy: every claim type has a
\* strategy; generate_anti is set for three of them.
_get_expansion_strategy(claim_type) ==
    [generate_anti |-> claim_type \in {"restrictions", "policies", "neighborhood"}]

\* ExpansionService._expand_single_claim: the strategy goes into the prompt
\* only; the claims are built from whatever the response holds.
_expand_single_claim(i, claim, response) ==
    IF ~response.ok THEN <<>>
    ELSE (IF response.derived_claims
          THEN <<[claim |-> DerivedText(i), claim_type |-> claim.claim_type,
                  kind |-> "derived", from_claim |-> claim.claim,
                  negation |-> claim.negation, has_quantifiers |-> FALSE,
                  quantified |-> FALSE]>>
          ELSE <<>>)
         \o
         (IF response.anti_claims
          THEN <<[claim |-> AntiText(i), claim_type |-> claim.claim_type,
                  kind |-> "anti", from_claim |-> claim.claim,
                  negation |-> ~claim.negation, has_quantifiers |-> FALSE,
                  quantified |-> FALSE]>>
          ELSE <<>>)

RECURSIVE Expansions(_, _, _)
Expansions(claims, responses, i) ==
    IF i > Len(claims) THEN <<>>
    ELSE _expand_single_claim(i, claims[i], responses[i])
         \o Expansions(claims, responses, i + 1)

\* ExpansionService.expand_claims: the claims, then what each base claim
\* expanded to.
expand_claims(claims, responses) == claims \o Expansions(claims, responses, 1)

\* The claim after its quantifier extraction: a response with quantifiers
\* replaces the claim text by the templated text.
Quantified(claim, i, response) ==
    IF response = "templated"
    THEN [claim EXCEPT !.claim = QuantifiedText(i), !.quantified = TRUE]
    ELSE claim

\* QuantifierService.extract_quantifiers: the claims with has_quantifiers
\* first, each after its extraction, then the others. Only base claims have
\* has_quantifiers here, and the i-th claim is the i-th base claim.
extract_quantifiers(claims, responses) ==
    LET with == SelectSeq([i \in 1..Len(claims) |->
                              IF claims[i].has_quantifiers
                              THEN Quantified(claims[i], i, responses[i])
                              ELSE claims[i]],
                          LAMBDA c : c.has_quantifiers)
        without == SelectSeq(claims, LAMBDA c : ~c.has_quantifiers)
    IN IF Len(with) = 0 THEN claims ELSE with \o without

InitExpand ==
    /\ StoreInit
    /\ \E n \in 1..MaxBaseClaims :
         \E fs \in [1..n -> BaseClaimFields],
            es \in [1..n -> ExpansionResponses],
            qs \in [1..n -> QuantifierResponses] :
            input = [fn |-> "expand", claims |-> [i \in 1..n |-> BaseClaim(i, fs[i])],
                     expansion_responses |-> es, quantifier_responses |-> qs]
    /\ output = [done |-> FALSE, stage |-> "grounded"]

ExpandClaims ==
    /\ input.fn = "expand" /\ output.stage = "grounded"
    /\ output' = [done |-> FALSE, stage |-> "expanded",
                  claims |-> expand_claims(input.claims, input.expansion_responses)]
    /\ UNCHANGED input
    /\ StoreUnchanged

\* The claims process goes on to embed and write.
ExtractQuantifiers ==
    /\ input.fn = "expand" /\ output.stage = "expanded"
    /\ output' = [done |-> TRUE, stage |-> "quantified",
                  claims |-> extract_quantifiers(output.claims,
                                                 input.quantifier_responses)]
    /\ UNCHANGED input
    /\ StoreUnchanged

NextExpand ==
    \/ ExpandClaims
    \/ ExtractQuantifiers

SpecExpand == InitExpand /\ [][NextExpand]_vars

\* ------------------------------------------- the vision rate limiter
\* VisionService.max_rpm and window_seconds are 150 and 60; the limiter is
\* checked for small values of both, the code reading them only through
\* these names.
max_rpm == 2
window_seconds == 3

\* Calls of describe_single_image in one run, and the time up to which the
\* clock moves freely; past it the clock moves only while a caller sleeps.
MaxRequests == 5
MaxTime == 6

\* while requests_window and current_time - requests_window[0] >= window_seconds: popleft()
RECURSIVE Evict(_, _)
Evict(window, current_time) ==
    IF Len(window) > 0 /\ current_time - window[1] >= window_seconds
    THEN Evict(Tail(window), current_time)
    ELSE window

\* A sleep one second short.
SleepTimeShort(current_time, oldest_request) ==
    window_seconds - (current_time - oldest_request) - 1

\* sleep_time = window_seconds - (current_time - oldest_request)
SleepTime(current_time, oldest_request) ==
    window_seconds - (current_time - oldest_request)

\* Leaving the lock held.
KeepLocked(l) == l

\* Leaving "async with self._lock".
release(l) == [l EXCEPT !.locked = FALSE]

VisionFrame ==
    UNCHANGED <<rooms, apartments, neighborhoods, proc, calls, delResult, got,
                found, input, output>>

\* The body of _rate_limit from the moment caller c holds the lock up to its
\* first await: either the request is appended and the lock released, or the
\* caller goes to sleep holding the lock.
CriticalSection(c, waiters) ==
    LET current_time == clock
        window == Evict(requests_window, current_time)
        held == [locked |-> TRUE, waiters |-> waiters]
    IN IF Len(window) >= max_rpm /\ SleepTime(current_time, window[1]) > 0
       THEN /\ requests_window' = window
            /\ lock' = held
            /\ callers' = [callers EXCEPT ![c] =
                              [pc |-> "sleeping",
                               wake_at |-> clock + SleepTime(current_time, window[1]),
                               slept |-> TRUE]]
            /\ admitted' = admitted
       ELSE /\ requests_window' = Append(window, current_time)
            /\ lock' = release(held)
            /\ callers' = [callers EXCEPT ![c] =
                              [pc |-> "idle", wake_at |-> 0, slept |-> FALSE]]
            /\ admitted' = Append(admitted, current_time)

Pending == {c \in Callers : callers[c].pc # "idle"}

\* describe_single_image calls _rate_limit: the caller takes the lock when it
\* is free and nobody queues for it, and queues otherwise.
_rate_limit(c) ==
    /\ callers[c].pc = "idle"
    /\ Len(admitted) + Cardinality(Pending) < MaxRequests
    /\ IF ~lock.locked /\ lock.waiters = <<>>
       THEN CriticalSection(c, <<>>)
       ELSE /\ lock' = [lock EXCEPT !.waiters = Append(lock.waiters, c)]
            /\ callers' = [callers EXCEPT ![c] =
                              [pc |-> "waiting", wake_at |-> 0, slept |-> FALSE]]
            /\ UNCHANGED <<requests_window, admitted>>
    /\ UNCHANGED clock
    /\ VisionFrame

\* asyncio.Lock wakes its waiters first come, first served.
AcquireLock(c) ==
    /\ callers[c].pc = "waiting"
    /\ ~lock.locked
    /\ lock.waiters # <<>> /\ Head(lock.waiters) = c
    /\ CriticalSection(c, Tail(lock.waiters))
    /\ UNCHANGED clock
    /\ VisionFrame

\* asyncio.sleep(sleep_time) is over: the window is evicted again, the
\* request appended and the lock released.
AfterSleep(c) ==
    /\ callers[c].pc = "sleeping"
    /\ clock >= callers[c].wake_at
    /\ requests_window' = Append(Evict(requests_window, clock), clock)
    /\ admitted' = Append(admitted, clock)
    /\ lock' = release(lock)
    /\ callers' = [callers EXCEPT ![c] = [pc |-> "idle", wake_at |-> 0, slept |-> TRUE]]
    /\ UNCHANGED clock
    /\ VisionFrame

\* A second passes.
Tick ==
    /\ \/ clock < MaxTime
       \/ \E c \in Callers : callers[c].pc = "sleeping" /\ callers[c].wake_at > clock
    /\ clock' = clock + 1
    /\ UNCHANGED <<requests_window, lock, callers, admitted>>
    /\ VisionFrame

NextVision ==
    \/ \E c \in Callers : _rate_limit(c)
    \/ \E c \in Callers : AcquireLock(c)
    \/ \E c \in Callers : AfterSleep(c)
    \/ Tick

SpecVision == Init /\ [][NextVision]_vars

\* The event loop runs every task that can run, the lock serves its waiters
\* in order, and time passes.
SpecVisionFair ==
    /\ Init /\ [][NextVision]_vars
    /\ WF_vars(Tick)
    /\ \A c \in Callers : WF_vars(AcquireLock(c)) /\ WF_vars(AfterSleep(c))

\* ------------------------------------- deduplication on bounded claim lists
MaxDedupClaims == 3

\* DeduplicationService.similarity_threshold, in hundredths.
similarity_threshold == 98

\* embedding_service.embed_texts: one fixed vector per claim text. "studio"
\* and "small studio" are duplicates, "small studio" and "tiny studio" are,
\* "studio" and "tiny studio" are not; the empty text embeds to the zero
\* vector.
DedupTexts == {"", "studio", "small studio", "tiny studio"}

embed_text(text) ==
    CASE text = "" -> <<0, 0>>
      [] text = "studio" -> <<10, 0>>
      [] text = "small studio" -> <<10, 2>>
      [] text = "tiny studio" -> <<10, 4>>

\* Claim.source: None, a text source, or the source of one image.
NoSource == [type |-> "None", image_index |-> -1]
ClaimSources ==
    {NoSource, [type |-> "text", image_index |-> -1],
     [type |-> "image", image_index |-> 0], [type |-> "image", image_index |-> 1]}

DedupClaims == [claim : DedupTexts, source : ClaimSources]

Dot(v1, v2) == v1[1] * v2[1] + v1[2] * v2[2]

\* _cosine_similarity(vec1, vec2) >= similarity_threshold, with the cosine
\* 0.0 when a norm is zero; compared exactly on the squares.
IsDuplicate(vec1, vec2) ==
    IF Dot(vec1, vec1) = 0 \/ Dot(vec2, vec2) = 0 THEN FALSE
    ELSE /\ Dot(vec1, vec2) >= 0
         /\ Dot(vec1, vec2) * Dot(vec1, vec2) * 100 * 100
               >= similarity_threshold * similarity_threshold
                  * Dot(vec1, vec1) * Dot(vec2, vec2)

Contains(seq, x) == \E k \in 1..Len(seq) : seq[k] = x

\* The sources gathered for claim i: its own, then those of its duplicates
\* in list order, each once, None left out.
RECURSIVE MergedSources(_, _, _, _)
MergedSources(claims, dups, j, merged) ==
    IF j > Len(claims) THEN merged
    ELSE IF j \in dups /\ claims[j].source # NoSource
            /\ ~Contains(merged, claims[j].source)
         THEN MergedSources(claims, dups, j + 1, Append(merged, claims[j].source))
         ELSE MergedSources(claims, dups, j + 1, merged)

\* DeduplicationService._merge_sources
_merge_sources(sources) ==
    IF \E k \in 1..Len(sources) : sources[k].type = "text"
    THEN sources[CHOOSE k \in 1..Len(sources) :
                    /\ sources[k].type = "text"
                    /\ \A l \in 1..(k - 1) : sources[l].type # "text"]
    ELSE IF \E k \in 1..Len(sources) : sources[k].type = "image"
    THEN sources[CHOOSE k \in 1..Len(sources) :
                    /\ sources[k].type = "image"
                    /\ \A l \in 1..(k - 1) : sources[l].type # "image"]
    ELSE [type |-> "text", image_index |-> -1]

\* The loop with every later claim compared against every earlier claim,
\* kept or not.
RECURSIVE DedupLoopAgainstAll(_, _, _, _)
DedupLoopAgainstAll(claims, i, seen_indices, unique_claims) ==
    IF i > Len(claims) THEN unique_claims
    ELSE LET dups == {j \in (i + 1)..Len(claims) :
                         /\ j \notin seen_indices
                         /\ IsDuplicate(embed_text(claims[i].claim),
                                        embed_text(claims[j].claim))}
             merged_sources ==
                 MergedSources(claims, dups, i + 1,
                               IF claims[i].source # NoSource
                               THEN <<claims[i].source>> ELSE <<>>)
             final_claim ==
                 IF dups # {} /\ Len(merged_sources) > 1
                 THEN [claims[i] EXCEPT !.source = _merge_sources(merged_sources)]
                 ELSE claims[i]
         IN DedupLoopAgainstAll(claims, i + 1, seen_indices \cup dups,
                    IF i \in seen_indices THEN unique_claims
                    ELSE Append(unique_claims, [index |-> i, claim |-> final_claim]))

\* The loop of deduplicate_claims from claim i on: the kept claims with
\* their positions in the list.
RECURSIVE DedupLoop(_, _, _, _)
DedupLoop(claims, i, seen_indices, unique_claims) ==
    IF i > Len(claims) THEN unique_claims
    ELSE IF i \in seen_indices
    THEN DedupLoop(claims, i + 1, seen_indices, unique_claims)
    ELSE LET dups == {j \in (i + 1)..Len(claims) :
                         /\ j \notin seen_indices
                         /\ IsDuplicate(embed_text(claims[i].claim),
                                        embed_text(claims[j].claim))}
             merged_sources ==
                 MergedSources(claims, dups, i + 1,
                               IF claims[i].source # NoSource
                               THEN <<claims[i].source>> ELSE <<>>)
             final_claim ==
                 IF dups # {} /\ Len(merged_sources) > 1
                 THEN [claims[i] EXCEPT !.source = _merge_sources(merged_sources)]
                 ELSE claims[i]
         IN DedupLoop(claims, i + 1, seen_indices \cup dups,
                      Append(unique_claims, [index |-> i, claim |-> final_claim]))

\* The positions deduplicate_claims keeps.
KeptIndices(claims) ==
    IF Len(claims) <= 1 THEN [k \in 1..Len(claims) |-> k]
    ELSE LET kept == DedupLoop(claims, 1, {}, <<>>)
         IN [k \in 1..Len(kept) |-> kept[k].index]

\* DeduplicationService.deduplicate_claims
deduplicate_claims(claims) ==
    IF Len(claims) <= 1 THEN claims
    ELSE LET kept == DedupLoop(claims, 1, {}, <<>>)
         IN [k \in 1..Len(kept) |-> kept[k].claim]

InitDedup ==
    /\ StoreInit
    /\ \E cs \in SeqsUpTo(DedupClaims, MaxDedupClaims) :
          input = [fn |-> "deduplicate_claims", claims |-> cs]
    /\ output = [done |-> FALSE, stage |-> "extracted"]

DeduplicateClaims ==
    /\ input.fn = "deduplicate_claims" /\ output.stage = "extracted"
    /\ output' = [done |-> FALSE, stage |-> "once",
                  kept |-> KeptIndices(input.claims),
                  unique_claims |-> deduplicate_claims(input.claims)]
    /\ UNCHANGED input
    /\ StoreUnchanged

\* A second call on the result of the first.
DeduplicateAgain ==
    /\ input.fn = "deduplicate_claims" /\ output.stage = "once"
    /\ output' = [done |-> TRUE, stage |-> "twice",
                  kept |-> output.kept,
                  unique_claims |-> output.unique_claims,
                  again |-> deduplicate_claims(output.unique_claims)]
    /\ UNCHANGED input
    /\ StoreUnchanged

NextDedup ==
    \/ DeduplicateClaims
    \/ DeduplicateAgain

SpecDedup == InitDedup /\ [][NextDedup]_vars

\* ------------------------------- the grounding decision on bounded claims
MaxListingClaims == 2

\* settings.max_groundings_per_listing
max_groundings_per_listing == 3

GroundingDomains == {"room", "apartment", "neighborhood"}
GroundingTypes ==
    {"location", "transport", "amenities", "neighborhood", "features",
     "policies", "size"}

\* Claim(...): is_specific is false unless given.
ListingClaims ==
    [domain : GroundingDomains, claim_type : GroundingTypes, is_specific : BOOLEAN]

\* The decision with the test of is_specific left out.
ShouldGroundAnySpecificity(enable_grounding, claim) ==
    IF ~enable_grounding THEN FALSE
    ELSE IF claim.domain = "room" THEN FALSE
    ELSE claim.claim_type \in {"location", "transport", "amenities"}

\* GroundingService.should_ground_claim
should_ground_claim(enable_grounding, claim) ==
    IF ~enable_grounding THEN FALSE
    ELSE IF claim.domain = "room" THEN FALSE
    ELSE IF ~claim.is_specific THEN FALSE
    ELSE IF claim.claim_type \in {"location", "transport", "amenities"} THEN TRUE
    ELSE FALSE

InitGround ==
    /\ StoreInit
    /\ \E cs \in SeqsUpTo(ListingClaims, MaxListingClaims),
          enable_grounding \in BOOLEAN, hasLocation \in BOOLEAN :
          input = [fn |-> "ground", claims |-> cs,
                   enable_grounding |-> enable_grounding,
                   location |-> IF hasLocation THEN [lat |-> 40, lng |-> -73]
                                ELSE <<>>]
    /\ output = [done |-> FALSE, stage |-> "deduplicated"]

\* A direct call of should_ground_claim on one claim.
ShouldGroundClaim ==
    /\ input.fn = "ground" /\ output.stage = "deduplicated"
    /\ \E i \in 1..Len(input.claims) :
         output' = [done |-> TRUE, stage |-> "decided", claim |-> input.claims[i],
                    result |-> should_ground_claim(input.enable_grounding,
                                                   input.claims[i])]
    /\ UNCHANGED input
    /\ StoreUnchanged

\* IndexerPipeline._ground_claims with GroundingService.ground_claims_batch:
\* the groundable claims, of which the first max_groundings_per_listing that
\* the cache does not answer go to the provider.
GroundClaims ==
    /\ input.fn = "ground" /\ output.stage = "deduplicated"
    /\ LET groundable_claims ==
               IF DOMAIN input.location = {} THEN <<>>
               ELSE SelectSeq(input.claims,
                              LAMBDA c : should_ground_claim(input.enable_grounding, c))
           batch == Slice(groundable_claims, max_groundings_per_listing)
       IN \E cached \in SUBSET (1..Len(batch)) :
            output' = [done |-> TRUE, stage |-> "grounded",
                       groundable_claims |-> groundable_claims,
                       claims_to_ground |->
                           SetToSeq({i \in 1..Len(batch) : i \notin cached}),
                       batch |-> batch]
    /\ UNCHANGED input
    /\ StoreUnchanged

NextGround ==
    \/ ShouldGroundClaim
    \/ GroundClaims

SpecGround == InitGround /\ [][NextGround]_vars

\* ------------------------- gates and scorer on bounded searcher results
MaxHits == 2

HitScores == {700000, 800000, 890000, 900000}
HitKinds == {"base", "anti"}
QueryShapes == {<<"apartment">>, <<"apartment", "neighborhood">>,
                <<"room", "apartment">>, <<"apartment", "apartment">>,
                <<"room", "apartment", "neighborhood">>}
\* The keys the searchers group their hits by: apartment ids for the rooms
\* and apartments indices, neighborhood ids for the neighborhoods index.
HitKeys(domain) ==
    CASE domain = "room" -> {"a1"}
      [] domain = "apartment" -> {"a1", "a2"}
      [] domain = "neighborhood" -> {"n1", "unknown"}

\* One hit of a domain searcher for the i-th search claim.
Hits(search_claims) ==
    UNION {[claim : {i}, key : HitKeys(search_claims[i].domain),
            score : HitScores, kind : HitKinds] : i \in 1..Len(search_claims)}

\* The match a searcher appends for a hit.
MatchOf(search_claims, hit) ==
    [search_claim |-> search_claims[hit.claim].claim,
     search_claim_obj |-> search_claims[hit.claim],
     matched_claim |-> <<"matched", hit.key>>,
     score |-> hit.score,
     kind |-> hit.kind,
     claim_type |-> search_claims[hit.claim].claim_type,
     quantifiers |-> <<>>,
     matched_negation |-> FALSE]

\* all_matches of a searcher: per key the matches in the order of the hits.
MatchesByKey(search_claims, hits, domain) ==
    LET mine == SelectSeq(hits, LAMBDA h : search_claims[h.claim].domain = domain)
        keys == {mine[i].key : i \in 1..Len(mine)}
    IN [k \in keys |->
          LET ofKey == SelectSeq(mine, LAMBDA h : h.key = k)
          IN [i \in 1..Len(ofKey) |-> MatchOf(search_claims, ofKey[i])]]

\* The store after a1 (neighborhood n1) and a2 (no neighborhood_id) were
\* indexed with one apartment-domain and one neighborhood-domain claim each.
RankProc(a, c, nid) ==
    LET p == [IdleProc EXCEPT !.call = c, !.nid = nid, !.rent = RentOf(a),
                              !.napt = 1, !.nnb = 1]
    IN [p EXCEPT !.pc = "done", !.result = _build_result(p)]

InitRank ==
    /\ proc = [a \in Apts |-> IF a = "a1" THEN RankProc(a, 1, "n1")
                              ELSE RankProc(a, 2, NoneId)]
    /\ rooms = <<>>
    /\ apartments = [id \in {ApartmentDocId(a, 0) : a \in Apts} |->
                        ApartmentDoc(id[1], proc[id[1]], 0)]
    /\ neighborhoods = [id \in {NeighborhoodDocId(proc[a].nid, 0) : a \in Apts} |->
                        IF id[1] = "n1" THEN NeighborhoodDoc("a1", proc["a1"], 0)
                        ELSE NeighborhoodDoc("a2", proc["a2"], 0)]
    /\ calls = 2
    /\ delResult = [a \in Apts |-> [status |-> "none", total_deleted |-> 0]]
    /\ got = NoGet
    /\ found = NoSearch
    /\ VisionInit
    /\ \E shape \in QueryShapes, dc \in BOOLEAN :
         \E hits \in SeqsUpTo(Hits(SearchClaims(shape)), MaxHits) :
            input = [fn |-> "rank",
                     search_claims |-> SearchClaims(shape),
                     room_matches |-> MatchesByKey(SearchClaims(shape), hits, "room"),
                     apartment_matches |->
                         MatchesByKey(SearchClaims(shape), hits, "apartment"),
                     neighborhood_matches |->
                         MatchesByKey(SearchClaims(shape), hits, "neighborhood"),
                     structured_filters |-> <<>>,
                     compatibility_cache |-> <<>>,
                     double_check_matches |-> dc]
    /\ output = [done |-> FALSE, stage |-> "searched"]

\* _execute_domain_searches after the searchers returned.
FilterByHierarchy ==
    /\ input.fn = "rank" /\ output.stage = "searched"
    /\ output' = [done |-> FALSE, stage |-> "hierarchy",
                  apartments |-> filter_by_hierarchy(apartments, input.room_matches,
                                    input.apartment_matches, input.neighborhood_matches,
                                    input.search_claims, input.structured_filters)]
    /\ UNCHANGED input
    /\ StoreUnchanged

\* _rank_and_filter_results: the anti-claim gate ...
FilterByAntiClaims ==
    /\ input.fn = "rank" /\ output.stage = "hierarchy"
    /\ output' = [done |-> FALSE, stage |-> "anti",
                  apartments |-> output.apartments,
                  filtered_apartments |->
                      filter_by_anti_claims(output.apartments, input.room_matches,
                          input.apartment_matches, input.neighborhood_matches,
                          ANTI_CLAIM_THRESHOLD)]
    /\ UNCHANGED input
    /\ StoreUnchanged

\* ... and rank_results on the apartments that passed it.
RankResults ==
    /\ input.fn = "rank" /\ output.stage = "anti"
    /\ \E order \in Orders(output.filtered_apartments) :
         LET r == rank_results(apartments, order, input.room_matches,
                      input.apartment_matches, input.neighborhood_matches,
                      input.search_claims, input.compatibility_cache,
                      input.double_check_matches)
         IN output' = [done |-> TRUE, stage |-> "ranked",
                       apartments |-> output.apartments,
                       filtered_apartments |-> output.filtered_apartments,
                       scored |-> r.scored, results |-> r.results]
    /\ UNCHANGED input
    /\ StoreUnchanged

\* search returns ranked_results[:top_k].
MaxTopK == 2

ReturnTopK ==
    /\ input.fn = "rank" /\ output.stage = "ranked"
    /\ \E top_k \in -1..MaxTopK :
         output' = [done |-> TRUE, stage |-> "returned",
                    apartments |-> output.apartments,
                    filtered_apartments |-> output.filtered_apartments,
                    scored |-> output.scored, results |-> output.results,
                    top_k |-> top_k, returned |-> Slice(output.results, top_k)]
    /\ UNCHANGED input
    /\ StoreUnchanged

NextRank ==
    \/ FilterByHierarchy
    \/ FilterByAntiClaims
    \/ RankResults
    \/ ReturnTopK

SpecRank == InitRank /\ [][NextRank]_vars

\* ------------------------------------------------------------------ claims
\* The documents of an index that the call number c for apartment a wrote
\* and that are still there.
DocsOfCall(index, a, c) ==
    {d \in DOMAIN index : index[d].claim[1] = a /\ index[d].claim[2] = c}

DocsOfApartment(index, a) == {d \in DOMAIN index : index[d].claim[1] = a}

\* C1: once process has returned a success result for a listing, the
\* documents this call has left in the rooms, apartments and neighborhoods
\* indices number total_features, whatever other listings are indexed.
C1_DocumentsLeftEqualTotalFeatures ==
    \A a \in Apts :
        (proc[a].pc = "done" /\ proc[a].result.status = "success") =>
            Cardinality(DocsOfCall(rooms, a, proc[a].call))
            + Cardinality(DocsOfCall(apartments, a, proc[a].call))
            + Cardinality(DocsOfCall(neighborhoods, a, proc[a].call))
            = proc[a].result.total_features

\* C2: after delete_apartment(id) has returned success (and before the id is
\* indexed again), no index holds a document written for apartment id.
C2_DeleteRemovesEveryDocument ==
    \A a \in Apts :
        delResult[a].status = "success" =>
            /\ DocsOfApartment(rooms, a) = {}
            /\ DocsOfApartment(apartments, a) = {}
            /\ DocsOfApartment(neighborhoods, a) = {}

\* The store a call leaves when it runs alone on an empty store.
RoomsAlone(a) ==
    [id \in {RoomDocId(a, i) : i \in 0..(proc[a].nroom - 1)} |->
        RoomDoc(a, proc[a], id[3])]
ApartmentsAlone(a) ==
    [id \in {ApartmentDocId(a, i) : i \in 0..(proc[a].napt - 1)} |->
        [ApartmentDoc(a, proc[a], id[3]) EXCEPT
            !.property_summary = (id[3] = 0 /\ proc[a].summary)]]
NeighborhoodsAlone(a) ==
    [id \in {NeighborhoodDocId(proc[a].nid, i) : i \in 0..(proc[a].nnb - 1)} |->
        NeighborhoodDoc(a, proc[a], id[3])]

\* index holds exactly the documents of alone[a] over the apartments a.
IsUnionOf(index, alone) ==
    /\ DOMAIN index = UNION {DOMAIN alone[a] : a \in Apts}
    /\ \A a \in Apts : \A id \in DOMAIN alone[a] : index[id] = alone[a][id]

\* C3: when process(a1) and process(a2) are the only two calls and both have
\* returned, in whatever interleaving, the store is the union of what each
\* call writes when run alone.
C3_IndexingCallsIndependent ==
    (/\ calls = 2
     /\ \A a \in Apts : proc[a].pc = "done" /\ proc[a].call \in {1, 2}
     /\ proc["a1"].call # proc["a2"].call)
    => /\ IsUnionOf(rooms, [a \in Apts |-> RoomsAlone(a)])
       /\ IsUnionOf(apartments, [a \in Apts |-> ApartmentsAlone(a)])
       /\ IsUnionOf(neighborhoods, [a \in Apts |-> NeighborhoodsAlone(a)])

\* C4: get_apartment on a listing whose indexing call has returned success
\* with at least one apartment-domain claim answers with total_claims equal
\* to neighborhood + apartment + room of the call's domain_breakdown.
C4_GetReturnsAllClaims ==
    (got.indexed /\ got.result.status = "success" /\ got.result.apartment > 0) =>
        /\ got.response.found
        /\ got.response.total_claims =
              got.result.neighborhood + got.result.apartment + got.result.room

ReturnedIds == {found.results[k].apartment_id : k \in 1..Len(found.results)}

\* C5: a search whose only claim is a neighborhood-domain claim returns
\* every listing that was indexed without a neighborhood_id, has documents in
\* the apartments index and has a neighborhood document of its own that the
\* claim matches, with that claim counted in its coverage.
C5_ListingWithoutNeighborhoodIdFound ==
    (/\ found.issued
     /\ Len(found.search_claims) = 1
     /\ found.search_claims[1].domain = "neighborhood"
     /\ DOMAIN found.structured_filters = {})
    => \A a \in Apts :
         (/\ proc[a].pc = "done"
          /\ proc[a].nid = NoneId
          /\ DocsOfCall(apartments, a, proc[a].call) # {}
          /\ DocsOfCall(neighborhoods, a, proc[a].call) # {})
         => \E k \in 1..Len(found.results) :
               /\ found.results[k].apartment_id = a
               /\ found.results[k].coverage_count >= 1

\* C9: a search with no claims and a rent_price filter returns exactly the
\* apartments with a document that satisfies the filter when
\* double_check_matches is true, and none when it is false.
C9_FilterOnlyQuery ==
    (/\ found.issued
     /\ Len(found.search_claims) = 0
     /\ DOMAIN found.structured_filters # {})
    => ReturnedIds =
         IF found.double_check_matches
         THEN {apartments[d].apartment_id : d \in {x \in DOMAIN apartments :
                  RentClause(apartments[x], found.structured_filters)}}
         ELSE {}

SameNoun(q, m) == m.qtype = q.qtype /\ m.noun = q.noun

\* The predicate of q.op over (m.vmin, m.vmax), as the table of the
\* specification states it.
PredicateOf(q, m) ==
    \/ q.op = "GTE" /\ m.vmin >= q.vmin
    \/ q.op = "GT" /\ m.vmin > q.vmin
    \/ q.op = "LTE" /\ m.vmax <= q.vmax
    \/ q.op = "LT" /\ m.vmax < q.vmax
    \/ q.op \in {"EQUALS", "APPROX"} /\ m.vmin <= q.vmin /\ q.vmin <= m.vmax
    \/ q.op = "RANGE" /\ ~(m.vmax < q.vmin \/ m.vmin > q.vmax)

\* C7 as stated: validate_quantifiers returns false iff some search
\* quantifier has some matched quantifier of the same (qtype, noun) for which
\* the predicate of its op fails.
C7_AnyMatchedQuantifierRejects ==
    output.done /\ input.fn = "validate_quantifiers" =>
        LET qs == input.search_claim.quantifiers
            ms == input.matched_quantifiers
        IN (output.is_valid = FALSE) <=>
             \E i \in 1..Len(qs), k \in 1..Len(ms) :
                SameNoun(qs[i], ms[k]) /\ ~PredicateOf(qs[i], ms[k])

\* C7 amended: validate_quantifiers returns false iff for some search
\* quantifier the FIRST matched quantifier of the same (qtype, noun) fails
\* the predicate of its op; later matched quantifiers of that (qtype, noun)
\* are not looked at, and a search quantifier without one is skipped.
C7_FirstMatchedQuantifierRejects ==
    output.done /\ input.fn = "validate_quantifiers" =>
        LET qs == input.search_claim.quantifiers
            ms == input.matched_quantifiers
        IN (output.is_valid = FALSE) <=>
             \E i \in 1..Len(qs), k \in 1..Len(ms) :
                /\ SameNoun(qs[i], ms[k])
                /\ \A j \in 1..(k - 1) : ~SameNoun(qs[i], ms[j])
                /\ ~PredicateOf(qs[i], ms[k])

\* A rejection by a GT quantifier whose matched vmin equals the wanted vmin,
\* the matched quantifier standing behind one of another noun.
C7_Witness ==
    /\ output.done /\ input.fn = "validate_quantifiers"
    /\ output.is_valid = FALSE
    /\ Len(input.matched_quantifiers) = 2
    /\ \E i \in 1..Len(input.search_claim.quantifiers) :
         LET q == input.search_claim.quantifiers[i]
             m == input.matched_quantifiers[2]
         IN q.op = "GT" /\ SameNoun(q, m) /\ m.vmin = q.vmin
            /\ ~SameNoun(q, input.matched_quantifiers[1])

\* ---- claims about the gates and the scorer (SpecRank)
AtAntiGate == input.fn = "rank" /\ output.stage \in {"anti", "ranked", "returned"}
Ranked == input.fn = "rank" /\ output.stage \in {"ranked", "returned"}

\* The matches of apartment a in a domain: those filed under its id by the
\* room and apartment searchers and those of its own neighborhood.
DomainMatches(a, domain) ==
    CASE domain = "room" -> Get(input.room_matches, a)
      [] domain = "apartment" -> Get(input.apartment_matches, a)
      [] domain = "neighborhood" ->
            Get(input.neighborhood_matches, MetadataNeighborhoodId(apartments, a))

OwnMatches(a) ==
    DomainMatches(a, "room") \o DomainMatches(a, "apartment")
        \o DomainMatches(a, "neighborhood")

\* The scores of the anti-kind (anti = TRUE) or of the other matches of
\* search claim text g among the matches ms.
ScoresOf(ms, g, anti) ==
    {ms[k].score : k \in {x \in 1..Len(ms) :
        ms[x].search_claim = g /\ (ms[x].kind = "anti") = anti}}

\* An anti-kind match of g in ms scores >= 0.90 and strictly more than every
\* non-anti match of g in ms (than 0 when there is none).
AntiRule(ms) ==
    \E k \in 1..Len(ms) :
        \E x \in ScoresOf(ms, ms[k].search_claim, TRUE) :
            /\ x >= 900000
            /\ x > 0
            /\ \A y \in ScoresOf(ms, ms[k].search_claim, FALSE) : x > y

\* C6: the anti-claim gate removes an apartment iff for some search claim
\* among the apartment's matches the best anti-kind score is >= 0.90 and
\* strictly greater than the best non-anti score (0 when there is none); an
\* apartment whose anti matches score at most 0.89 is never removed.
C6_AntiGateRemovesIffDominant ==
    AtAntiGate =>
        \A a \in output.apartments :
            /\ (a \notin output.filtered_apartments) <=> AntiRule(OwnMatches(a))
            /\ (\A k \in 1..Len(OwnMatches(a)) :
                    OwnMatches(a)[k].kind = "anti" => OwnMatches(a)[k].score <= 890000)
                 => a \in output.filtered_apartments

\* The same rule over the matches the gate gathers for the apartment (its
\* room matches, its apartment matches and the matches of every matched
\* neighborhood) does decide the removal.
GateMatches(a) ==
    AntiGateMatches(a, input.room_matches, input.apartment_matches,
                    input.neighborhood_matches)

AntiRuleOnGatheredMatches ==
    AtAntiGate =>
        \A a \in output.apartments :
            (a \notin output.filtered_apartments) <=> AntiRule(GateMatches(a))

\* The validated score of the best match of search claim text g among ms,
\* 0 when no match of g survives validation.
BestValidated(ms, g) ==
    MaxOf({apply_match_validation(ms[k], input.compatibility_cache,
                                  input.double_check_matches).score :
             k \in {x \in 1..Len(ms) :
                 /\ ms[x].search_claim = g
                 /\ apply_match_validation(ms[x], input.compatibility_cache,
                                           input.double_check_matches).valid}}, 0)

RECURSIVE SumBest(_, _, _, _)
SumBest(a, domain, search_claims, i) ==
    IF i = 0 THEN 0
    ELSE SumBest(a, domain, search_claims, i - 1)
         + (IF search_claims[i].domain = domain
            THEN BestValidated(DomainMatches(a, domain), search_claims[i].claim)
            ELSE 0)

NumClaimsOf(domain) ==
    Cardinality({i \in 1..Len(input.search_claims) :
                    input.search_claims[i].domain = domain})

Occurrences(list, a) ==
    Cardinality({k \in 1..Len(list) : list[k].apartment_id = a})

\* C10: with double_check_matches a scored apartment is dropped iff its
\* coverage_count is 0, without it iff final_score <= 0.05 or coverage_count
\* is 0; every apartment not dropped is returned exactly once, and every
\* returned result is a scored one.
C10_ResultFiltering ==
    Ranked =>
        /\ \A i \in 1..Len(output.scored) :
             LET r == output.scored[i]
                 dropped == IF input.double_check_matches
                            THEN r.coverage_count = 0
                            ELSE r.final_score <= 50000 \/ r.coverage_count = 0
             IN Occurrences(output.results, r.apartment_id) = IF dropped THEN 0 ELSE 1
        /\ \A k \in 1..Len(output.results) :
             \E i \in 1..Len(output.scored) : output.results[k] = output.scored[i]

\* Double-check mode returns an apartment whose final score is at most 0.05
\* and whose coverage is positive.
C10_Witness ==
    /\ Ranked
    /\ input.double_check_matches
    /\ \E k \in 1..Len(output.results) :
         /\ output.results[k].final_score <= 50000
         /\ output.results[k].coverage_count > 0

\* The position of apartment a in the scored list.
ScoredPosition(a) ==
    CHOOSE i \in 1..Len(output.scored) : output.scored[i].apartment_id = a

\* C11: the list rank_results returns is ordered by coverage_count
\* descending, then final_score descending; results with identical
\* (coverage_count, final_score) stand in the order of the scored list; and
\* search returns its first top_k elements (all when there are fewer).
C11_StableRankingAndTopK ==
    /\ Ranked =>
        \A i, j \in 1..Len(output.results) :
            i < j =>
              LET r1 == output.results[i]
                  r2 == output.results[j]
              IN /\ \/ r1.coverage_count > r2.coverage_count
                    \/ /\ r1.coverage_count = r2.coverage_count
                       /\ r1.final_score >= r2.final_score
                 /\ (r1.coverage_count = r2.coverage_count
                     /\ r1.final_score = r2.final_score)
                    => ScoredPosition(r1.apartment_id) < ScoredPosition(r2.apartment_id)
    /\ (input.fn = "rank" /\ output.stage = "returned" /\ output.top_k >= 0) =>
        /\ Len(output.returned) =
              IF output.top_k < Len(output.results)
              THEN output.top_k ELSE Len(output.results)
        /\ \A i \in 1..Len(output.returned) : output.returned[i] = output.results[i]

\* Two results tied on (coverage_count, final_score) that were scored in the
\* order a2, a1, of which top_k = 1 returns the first.
C11_Witness ==
    /\ input.fn = "rank" /\ output.stage = "returned"
    /\ output.top_k = 1
    /\ Len(output.results) = 2
    /\ output.results[1].coverage_count = output.results[2].coverage_count
    /\ output.results[1].final_score = output.results[2].final_score
    /\ output.scored[1].apartment_id = "a2"
    /\ output.returned = <<output.results[1]>>
    /\ output.results[1].apartment_id = "a2"

\* The claim at position i of the extracted claims is one the filter drops.
Redundant(i) ==
    LET c == input.search_claims[i]
    IN \/ c.claim_type = "pricing" /\ "rent_price" \in DOMAIN input.structured_filters
       \/ /\ c.claim_type = "restrictions"
          /\ "availability_dates" \in DOMAIN input.structured_filters
          /\ HasAvailabilityKeyword(c.claim)

KeptPositions == {i \in 1..Len(input.search_claims) : ~Redundant(i)}

\* The j-th smallest of the kept positions.
KeptPosition(j) ==
    CHOOSE i \in KeptPositions : Cardinality({k \in KeptPositions : k <= i}) = j

Filtered == input.fn = "search" /\ output.stage \in {"filtered", "searched"}

\* C12: with rent_price among the structured filters no pricing claim
\* survives _filter_redundant_claims and no kNN query is issued for one; a
\* restrictions claim is removed only when availability_dates is among the
\* filters and its text holds an availability keyword; every other claim is
\* kept, in its original order.
C12_RedundantClaimFiltering ==
    Filtered =>
        /\ "rent_price" \in DOMAIN input.structured_filters =>
              /\ \A j \in 1..Len(output.search_claims) :
                    output.search_claims[j].claim_type # "pricing"
              /\ output.stage = "searched" =>
                    \A j \in 1..Len(output.knn_queries) :
                        output.knn_queries[j].claim_type # "pricing"
        /\ Len(output.search_claims) = Cardinality(KeptPositions)
        /\ \A j \in 1..Len(output.search_claims) :
              output.search_claims[j] = input.search_claims[KeptPosition(j)]

\* Both filters present; a pricing claim and a restrictions claim with an
\* availability keyword are dropped, a restrictions claim without one is
\* kept and queried.
C12_Witness ==
    /\ input.fn = "search" /\ output.stage = "searched"
    /\ FilterKeys \subseteq DOMAIN input.structured_filters
    /\ Len(input.search_claims) = 2
    /\ input.search_claims[1].claim_type = "restrictions"
    /\ HasAvailabilityKeyword(input.search_claims[1].claim)
    /\ input.search_claims[2].claim_type = "restrictions"
    /\ ~HasAvailabilityKeyword(input.search_claims[2].claim)
    /\ output.knn_queries = <<input.search_claims[2]>>

\* What C13 allows to be grounded.
Groundable(claim) ==
    /\ input.enable_grounding
    /\ claim.domain # "room"
    /\ claim.is_specific
    /\ claim.claim_type \in {"location", "transport", "amenities"}

C14_GroundingDecisionOfTheTest ==
    (input.fn = "ground" /\ output.stage = "decided" /\ input.enable_grounding) =>
        /\ (/\ output.claim.domain = "neighborhood"
            /\ output.claim.claim_type \in
                  {"transport", "amenities", "location", "neighborhood"})
           => output.result
        /\ (/\ output.claim.domain = "apartment"
            /\ output.claim.claim_type \in {"features", "policies"})
           => ~output.result
        /\ output.claim.domain = "room" => ~output.result

Deduplicated == input.fn = "deduplicate_claims" /\ output.stage \in {"once", "twice"}

\* Claims i and j of the list are a duplicate pair.
DuplicatePair(i, j) ==
    IsDuplicate(embed_text(input.claims[i].claim), embed_text(input.claims[j].claim))

KeptSet == {output.kept[k] : k \in 1..Len(output.kept)}

\* A second call returns what it was given.
DedupIdempotent ==
    (input.fn = "deduplicate_claims" /\ output.stage = "twice") =>
        output.again = output.unique_claims

\* The kept positions ascend.
DedupFirstSeenOrder ==
    /\ Len(output.unique_claims) = Len(output.kept)
    /\ \A k, l \in 1..Len(output.kept) : k < l => output.kept[k] < output.kept[l]

\* C15 as stated: a second call returns what it was given; the result is a
\* subsequence of the list in first-seen order; of every pair of claims with
\* cosine similarity >= 0.98 the earlier one is kept and the later one
\* dropped.
C15_EarlierOfEveryDuplicatePairKept ==
    /\ DedupIdempotent
    /\ Deduplicated =>
        /\ DedupFirstSeenOrder
        /\ \A k \in 1..Len(output.kept) :
              output.unique_claims[k] = input.claims[output.kept[k]]
        /\ \A i, j \in 1..Len(input.claims) :
              (i < j /\ DuplicatePair(i, j)) => (i \in KeptSet /\ j \notin KeptSet)

\* C15 corrected: a second call returns what it was given; the result holds
\* claims of the list in first-seen order, each with its own text and with
\* its own source or the merged source of its duplicates; a claim is dropped
\* exactly when it is a duplicate (cosine similarity >= 0.98) of an earlier
\* claim that is kept.
C15_DuplicatesOfKeptClaimsDropped ==
    /\ DedupIdempotent
    /\ Deduplicated =>
        /\ DedupFirstSeenOrder
        /\ \A k \in 1..Len(output.kept) :
              LET c == input.claims[output.kept[k]]
                  group == {output.kept[k]} \cup
                           {j \in (output.kept[k] + 1)..Len(input.claims) :
                               j \notin KeptSet /\ DuplicatePair(output.kept[k], j)}
              IN /\ output.unique_claims[k].claim = c.claim
                 /\ \/ output.unique_claims[k].source = c.source
                    \/ \E j \in group :
                          output.unique_claims[k].source = input.claims[j].source
        /\ \A j \in 1..Len(input.claims) :
              j \notin KeptSet <=>
                 \E i \in 1..(j - 1) : i \in KeptSet /\ DuplicatePair(i, j)

\* A chain: the second claim duplicates the first, the third duplicates the
\* second but not the first; the first and the third are kept, and the
\* first takes the text source of the second.
C15_Witness ==
    /\ input.fn = "deduplicate_claims" /\ output.stage = "twice"
    /\ Len(input.claims) = 3
    /\ DuplicatePair(1, 2) /\ DuplicatePair(2, 3) /\ ~DuplicatePair(1, 3)
    /\ input.claims[1].source.type = "image"
    /\ input.claims[2].source.type = "text"
    /\ output.kept = <<1, 3>>
    /\ output.unique_claims[1].source.type = "text"
    /\ output.again = output.unique_claims

\* The admissions in the window of window_seconds that ends at time t.
AdmittedInWindow(t) ==
    {i \in 1..Len(admitted) : t - window_seconds < admitted[i] /\ admitted[i] <= t}

Sleeping == {c \in Callers : callers[c].pc = "sleeping"}

\* C16: whatever the callers and their interleaving, no window of
\* window_seconds holds more than max_rpm admissions, and at most one caller
\* is inside the limiter, holding its lock.
C16_RateLimit ==
    /\ \A t \in 0..clock : Cardinality(AdmittedInWindow(t)) <= max_rpm
    /\ Cardinality(Sleeping) <= 1
    /\ Sleeping # {} => lock.locked

\* The window is full, one caller sleeps inside the limiter and another
\* queues for the lock.
C16_Witness ==
    /\ Cardinality(AdmittedInWindow(clock)) = max_rpm
    /\ \E c, d \in Callers : callers[c].pc = "sleeping" /\ callers[d].pc = "waiting"

\* C17: a caller that finds the window full sleeps, and a caller that
\* sleeps or queues for the lock is eventually let through; the limiter has
\* no other way out.
C17_BlockedCallerEventuallyAdmitted ==
    \A c \in Callers :
        (callers[c].pc \in {"sleeping", "waiting"}) ~> (callers[c].pc = "idle")

\* A caller that slept on a full window has been let through.
C17_Witness ==
    /\ Len(admitted) > max_rpm
    /\ \E c \in Callers : callers[c].pc = "idle" /\ callers[c].slept

\* The sub-tasks C18 calls upstream: everything but the store write and a
\* mismatch of the embedding count or dimensionality.
UpstreamSubTasks == SubTasks \ {"store_write", "dedup_embed_mismatch", "embed_mismatch"}

\* C18: a call in which only upstream sub-tasks fail ends with the empty or
\* the normal success result, and a call that ends with an error has it
\* from a store write or from an embedding count or dimensionality mismatch.
C18_OnlyStoreOrMismatchFailsTheCall ==
    (input.fn = "process" /\ output.done) =>
        /\ input.failing \subseteq UpstreamSubTasks => output.status = "success"
        /\ output.status = "error" =>
              output.cause \in {"store_write", "embedding_mismatch"}

\* C19: in the claims an indexing call writes, every anti claim has a parent
\* whose text is its from_claim and whose negation is the opposite of its
\* own, and every derived claim has a parent whose text is its from_claim
\* and whose negation is its own.
C19_ExpandedClaimsHaveTheirParent ==
    (input.fn = "expand" /\ output.stage = "quantified") =>
        \A k \in 1..Len(output.claims) :
            LET c == output.claims[k]
            IN /\ c.kind = "anti" =>
                    \E p \in 1..Len(output.claims) :
                        /\ output.claims[p].claim = c.from_claim
                        /\ output.claims[p].negation = ~c.negation
               /\ c.kind = "derived" =>
                    \E p \in 1..Len(output.claims) :
                        /\ output.claims[p].claim = c.from_claim
                        /\ output.claims[p].negation = c.negation

\* C20: after expand_claims every anti claim is of type restrictions,
\* policies or neighborhood, whatever the expansion responses hold.
C20_AntiOnlyForThreeTypes ==
    (input.fn = "expand" /\ output.stage \in {"expanded", "quantified"}) =>
        \A k \in 1..Len(output.claims) :
            output.claims[k].kind = "anti" =>
                output.claims[k].claim_type \in {"restrictions", "policies", "neighborhood"}

\* ------------- the quantifiers of a claim through the writers and searchers
MaxStoredQ == 2

\* float('inf') and the number _serialize_quantifiers stores for it.
FloatInf == 1000000000
SerializedInf == 999999999

\* Quantifier objects of an embedded claim; vmax is infinite for an open range.
ClaimQuantifiers ==
    [qtype : {"distance"}, noun : {"subway"}, vmin : {1},
     vmax : {2, FloatInf}, op : {"LTE", "GTE"}]

IndexedClaims ==
    [domain : Domains, negation : {FALSE},
     quantifiers : SeqsUpTo(ClaimQuantifiers, MaxStoredQ)]

\* IndexerPipeline._serialize_quantifiers
_serialize_quantifiers(quantifiers) ==
    [i \in 1..Len(quantifiers) |->
        LET q_dict == quantifiers[i]
        IN [q_dict EXCEPT
              !.vmax = IF @ = FloatInf THEN SerializedInf ELSE @,
              !.vmin = IF @ = FloatInf THEN SerializedInf ELSE @]]

\* The document each writer builds for a claim (the fields the searchers read).
RoomSource(claim) ==
    [domain |-> "room", negation |-> claim.negation,
     quantifiers |-> _serialize_quantifiers(claim.quantifiers)]

ApartmentSource(claim) ==
    [domain |-> "apartment", negation |-> claim.negation,
     quantifiers |-> _serialize_quantifiers(claim.quantifiers)]

NeighborhoodSource(claim) ==
    [domain |-> "neighborhood", negation |-> claim.negation]

\* The match each searcher builds from a hit on that document.
RoomMatch(source) ==
    [domain |-> "room", negation |-> Get(source, "negation") = TRUE,
     quantifiers |-> Get(source, "quantifiers")]

ApartmentMatch(source) ==
    [domain |-> "apartment", negation |-> Get(source, "negation") = TRUE,
     quantifiers |-> Get(source, "quantifiers")]

NeighborhoodMatch(source) ==
    [domain |-> "neighborhood", negation |-> Get(source, "negation") = TRUE]

InitStored ==
    /\ StoreInit
    /\ \E c \in IndexedClaims : input = [fn |-> "index_and_search", claim |-> c]
    /\ output = [done |-> FALSE, stage |-> "embedded"]

IndexClaim ==
    /\ input.fn = "index_and_search" /\ output.stage = "embedded"
    /\ output' = [done |-> FALSE, stage |-> "indexed",
                  source |-> CASE input.claim.domain = "room" -> RoomSource(input.claim)
                               [] input.claim.domain = "apartment" -> ApartmentSource(input.claim)
                               [] OTHER -> NeighborhoodSource(input.claim)]
    /\ UNCHANGED input
    /\ StoreUnchanged

SearchDomain ==
    /\ input.fn = "index_and_search" /\ output.stage = "indexed"
    /\ output' = [done |-> TRUE, stage |-> "searched",
                  source |-> output.source,
                  match |-> CASE output.source.domain = "room" -> RoomMatch(output.source)
                              [] output.source.domain = "apartment" -> ApartmentMatch(output.source)
                              [] OTHER -> NeighborhoodMatch(output.source)]
    /\ UNCHANGED input
    /\ StoreUnchanged

NextStored ==
    \/ IndexClaim
    \/ SearchDomain

SpecStored == InitStored /\ [][NextStored]_vars

\* C21: whichever index a claim is written to, its document carries the
\* claim's quantifiers and the searcher of that domain returns them with
\* the match.
C21_QuantifiersStoredAndReturned ==
    (input.fn = "index_and_search" /\ output.stage = "searched") =>
        /\ Get(output.source, "quantifiers") = _serialize_quantifiers(input.claim.quantifiers)
        /\ Get(output.match, "quantifiers") = _serialize_quantifiers(input.claim.quantifiers)

\* --------------------------- _execute_domain_searches: the requests in time
\* The knn requests of a search in the order the code reaches them: the room
\* searcher's loop over the room claims, then the apartment searcher's, then
\* the neighborhood searcher's.  A domain without claims is not searched.
KnnRequests(claims_by_domain) ==
    [k \in 1..claims_by_domain["room"] |-> [domain |-> "room", claim |-> k]]
    \o [k \in 1..claims_by_domain["apartment"] |-> [domain |-> "apartment", claim |-> k]]
    \o [k \in 1..claims_by_domain["neighborhood"] |-> [domain |-> "neighborhood", claim |-> k]]

\* The position after the request at position next has been answered.
AfterKnn(requests, next) ==
    IF next > Len(requests) THEN "filter_by_hierarchy" ELSE "send"

InitFanOut ==
    /\ StoreInit
    /\ \E n \in [Domains -> 0..MaxQueryClaims] :
          /\ input = [fn |-> "_execute_domain_searches", claims_by_domain |-> n]
          /\ output = [done |-> FALSE, pc |-> AfterKnn(KnnRequests(n), 1), next |-> 1,
                       in_flight |-> {}, completed |-> {}]

\* es_client.client.search(...) is called and the coroutine waits on it.
SendKnn ==
    /\ input.fn = "_execute_domain_searches" /\ output.pc = "send"
    /\ output' = [output EXCEPT
                    !.pc = "await",
                    !.in_flight = @ \cup {KnnRequests(input.claims_by_domain)[output.next]}]
    /\ UNCHANGED input
    /\ StoreUnchanged

\* The response arrives; the loop goes on to the next claim, the method to
\* the next domain.
ReceiveHits ==
    /\ input.fn = "_execute_domain_searches" /\ output.pc = "await"
    /\ LET requests == KnnRequests(input.claims_by_domain)
       IN output' = [output EXCEPT
                       !.pc = AfterKnn(requests, output.next + 1),
                       !.next = @ + 1,
                       !.in_flight = @ \ {requests[output.next]},
                       !.completed = @ \cup {requests[output.next]}]
    /\ UNCHANGED input
    /\ StoreUnchanged

\* filter_by_hierarchy on the gathered matches ends the phase.
ReturnDomainMatches ==
    /\ input.fn = "_execute_domain_searches" /\ output.pc = "filter_by_hierarchy"
    /\ output' = [output EXCEPT !.pc = "returned", !.done = TRUE]
    /\ UNCHANGED input
    /\ StoreUnchanged

NextFanOut ==
    \/ SendKnn
    \/ ReceiveHits
    \/ ReturnDomainMatches

SpecFanOut == InitFanOut /\ [][NextFanOut]_vars

\* C22: the searches of the three indices fan out: no request to one index
\* is issued only after a request to another index has been answered.
C22_DomainSearchesFanOut ==
    [][input.fn = "_execute_domain_searches" =>
         \A r \in output'.in_flight \ output.in_flight :
            \A c \in output.completed : c.domain = r.domain]_vars

\* ------------------------------------ C23: the order of the store operations
\* The stages of one indexing call in the order of the code.
StageRank(pc) ==
    CASE pc = "idle" -> 0
      [] pc = "rooms" -> 1
      [] pc = "apartments" -> 2
      [] pc = "neighborhoods" -> 3
      [] pc = "refresh" -> 4
      [] pc = "enrich" -> 5
      [] pc = "done" -> 6

\* A step of the indexing call for a that has left process()'s upstream phases.
IndexingStep(a) == proc'[a] # proc[a] /\ proc[a].pc \notin {"idle", "done"}

\* C23: in one indexing call every room document is written before any
\* apartment document, every apartment document before any neighborhood
\* document, and the refresh follows the last write; the enrichment update
\* comes only after the refresh, touches only the document
\* {apartment_id}_claim_0 and is skipped without an apartment-domain claim.
C23_StoreOperationsInOrder ==
    [][\A a \in Apts : IndexingStep(a) =>
         LET p == proc[a]
             q == proc'[a]
         IN /\ StageRank(q.pc) >= StageRank(p.pc)
            /\ rooms' # rooms => p.pc = "rooms"
            /\ apartments' # apartments => p.pc \in {"apartments", "enrich"}
            /\ neighborhoods' # neighborhoods => p.pc = "neighborhoods"
            /\ (p.pc = "rooms" /\ q.pc # "rooms") => p.idx + 1 = p.nroom
            /\ (p.pc = "apartments" /\ q.pc # "apartments") => p.idx + 1 = p.napt
            /\ (p.pc = "neighborhoods" /\ q.pc # "neighborhoods") =>
                   p.idx + 1 = p.nnb /\ q.pc = "refresh"
            /\ q.pc = "enrich" => p.pc = "refresh"
            /\ p.pc = "enrich" =>
                  /\ DOMAIN apartments' = DOMAIN apartments
                  /\ \A id \in DOMAIN apartments :
                        id # ApartmentDocId(a, 0) => apartments'[id] = apartments[id]
                  /\ p.napt = 0 => apartments' = apartments]_vars

\* A call with claims of the three domains has written them, refreshed and
\* updated the summary of its first apartment document.
C23_Witness ==
    \E a \in Apts :
        /\ proc[a].pc = "done" /\ proc[a].summary
        /\ proc[a].nroom > 0 /\ proc[a].napt > 0 /\ proc[a].nnb > 0
        /\ apartments[ApartmentDocId(a, 0)].property_summary

\* ------------------------ filter_by_hierarchy on bounded matches and filters
MaxGateMatches == 2

\* The query of the gate: an apartment-domain claim on the number of
\* bedrooms (quantified with op, or not quantified), a room-domain claim on
\* the number of bathrooms and a neighborhood-domain claim.
GateClaims(op) ==
    <<[claim |-> <<"query", 1>>, domain |-> "apartment", claim_type |-> "size",
       is_specific |-> FALSE, negation |-> FALSE,
       quantifiers |-> IF op = "none" THEN <<>>
                       ELSE <<[qtype |-> "count", noun |-> "bedroom",
                               vmin |-> 2, vmax |-> 2, op |-> op]>>],
      [claim |-> <<"query", 2>>, domain |-> "room", claim_type |-> "features",
       is_specific |-> FALSE, negation |-> FALSE,
       quantifiers |-> <<[qtype |-> "count", noun |-> "bathroom",
                          vmin |-> 1, vmax |-> 1, op |-> "EQUALS"]>>],
      [claim |-> <<"query", 3>>, domain |-> "neighborhood",
       claim_type |-> "neighborhood", is_specific |-> FALSE, negation |-> FALSE,
       quantifiers |-> <<>>]>>

\* The stored quantifiers of a hit: none, or a count of the claim's noun.
StoredCounts == {0} \cup QuantifierValues

\* The k-th match a searcher appends under one key for search claim i; the
\* hits of a knn request come in descending order of score.
GateMatch(search_claims, i, key, k, count) ==
    [search_claim |-> search_claims[i].claim,
     search_claim_obj |-> search_claims[i],
     matched_claim |-> <<"matched", key, k>>,
     score |-> 950000 - 50000 * (k - 1),
     kind |-> "base",
     claim_type |-> search_claims[i].claim_type,
     quantifiers |-> IF count = 0 THEN <<>>
                     ELSE <<[qtype |-> "count",
                             noun |-> IF i = 1 THEN "bedroom" ELSE "bathroom",
                             vmin |-> count, vmax |-> count, op |-> "EQUALS"]>>,
     matched_negation |-> FALSE]

\* all_matches of a searcher from the stored counts of the hits per key; a
\* key without hits is not in the dict.
GateMatchesByKey(search_claims, i, counts) ==
    [key \in {x \in DOMAIN counts : Len(counts[x]) > 0} |->
        [k \in 1..Len(counts[key]) |->
            GateMatch(search_claims, i, key, k, counts[key][k])]]

\* The structured filters of the query: none, an upper or a lower rent bound.
GateFilters ==
    {<<>>, [rent_price |-> [max |-> 2000]], [rent_price |-> [min |-> 2000]]}

InitGate ==
    /\ proc = [a \in Apts |-> IF a = "a1" THEN RankProc(a, 1, "n1")
                              ELSE RankProc(a, 2, NoneId)]
    /\ rooms = <<>>
    /\ apartments = [id \in {ApartmentDocId(a, 0) : a \in Apts} |->
                        ApartmentDoc(id[1], proc[id[1]], 0)]
    /\ neighborhoods = [id \in {NeighborhoodDocId(proc[a].nid, 0) : a \in Apts} |->
                        IF id[1] = "n1" THEN NeighborhoodDoc("a1", proc["a1"], 0)
                        ELSE NeighborhoodDoc("a2", proc["a2"], 0)]
    /\ calls = 2
    /\ delResult = [a \in Apts |-> [status |-> "none", total_deleted |-> 0]]
    /\ got = NoGet
    /\ found = NoSearch
    /\ VisionInit
    /\ \E op \in {"none", "EQUALS", "LTE"},
          apt \in [Apts -> SeqsUpTo(StoredCounts, MaxGateMatches)],
          room \in [{"a1"} -> SeqsUpTo(StoredCounts, 1)],
          nb \in SUBSET {"n1", "unknown"},
          structured_filters \in GateFilters :
            input = [fn |-> "filter_by_hierarchy",
                     search_claims |-> GateClaims(op),
                     room_matches |-> GateMatchesByKey(GateClaims(op), 2, room),
                     apartment_matches |-> GateMatchesByKey(GateClaims(op), 1, apt),
                     neighborhood_matches |->
                         [key \in nb |-> <<GateMatch(GateClaims(op), 3, key, 1, 0)>>],
                     structured_filters |-> structured_filters]
    /\ output = [done |-> FALSE, stage |-> "searched"]

\* filter_by_hierarchy up to the quantifier gate ...
IntersectHierarchy ==
    /\ input.fn = "filter_by_hierarchy" /\ output.stage = "searched"
    /\ output' = [done |-> FALSE, stage |-> "intersected",
                  valid_apartments |->
                      HierarchyIntersection(apartments, input.room_matches,
                          input.apartment_matches, input.neighborhood_matches,
                          input.structured_filters).ids]
    /\ UNCHANGED input
    /\ StoreUnchanged

\* ... and its result.
FilterByQuantifiers ==
    /\ input.fn = "filter_by_hierarchy" /\ output.stage = "intersected"
    /\ output' = [done |-> TRUE, stage |-> "filtered",
                  valid_apartments |-> output.valid_apartments,
                  apartments |->
                      filter_by_hierarchy(apartments, input.room_matches,
                          input.apartment_matches, input.neighborhood_matches,
                          input.search_claims, input.structured_filters)]
    /\ UNCHANGED input
    /\ StoreUnchanged

NextGate ==
    \/ IntersectHierarchy
    \/ FilterByQuantifiers

SpecGate == InitGate /\ [][NextGate]_vars

\* The entries of apartment a the quantifier gate looks at: its apartment
\* and room matches.
GateEntries(a) == Get(input.apartment_matches, a) \o Get(input.room_matches, a)

\* Entry k of apartment a fails a quantified query claim of its text.
FailingEntry(a, k) ==
    \E i \in 1..Len(input.search_claims) :
        /\ Len(input.search_claims[i].quantifiers) > 0
        /\ GateEntries(a)[k].search_claim = input.search_claims[i].claim
        /\ ~validate_quantifiers(input.search_claims[i], GateEntries(a)[k].quantifiers)

\* C24: the quantifier gate removes an apartment of the intersected set if
\* and only if one of its apartment or room match entries for a quantified
\* query claim fails validate_quantifiers, whatever the entry's rank.
C24_QuantifierGate ==
    (input.fn = "filter_by_hierarchy" /\ output.stage = "filtered") =>
        /\ output.apartments \subseteq output.valid_apartments
        /\ \A a \in output.valid_apartments :
              a \notin output.apartments <=>
                  \E k \in 1..Len(GateEntries(a)) : FailingEntry(a, k)

\* An apartment is removed for its second entry though its best-scoring
\* entry passes, and another apartment is kept.
C24_Witness ==
    /\ input.fn = "filter_by_hierarchy" /\ output.stage = "filtered"
    /\ output.apartments # {}
    /\ \E a \in output.valid_apartments \ output.apartments :
          /\ Len(GateEntries(a)) >= 2
          /\ ~FailingEntry(a, 1)
          /\ FailingEntry(a, 2)

\* The apartments with a document in the apartments index that meets the
\* rent bounds of the structured filters.
SatisfyingFilters(structured_filters) ==
    {apartments[d].apartment_id : d \in {x \in DOMAIN apartments :
        "rent_price" \in DOMAIN structured_filters =>
            /\ ("min" \in DOMAIN structured_filters.rent_price =>
                    apartments[x].rent_price >= structured_filters.rent_price.min)
            /\ ("max" \in DOMAIN structured_filters.rent_price =>
                    apartments[x].rent_price <= structured_filters.rent_price.max)}}

\* The apartments with a document whose neighborhood_id is a matched key.
InMatchedNeighborhood ==
    {apartments[d].apartment_id : d \in {x \in DOMAIN apartments :
        apartments[x].neighborhood_id \in DOMAIN input.neighborhood_matches}}

C26_AntiGateJudgesOwnMatches ==
    AtAntiGate =>
        \A a \in output.apartments \ output.filtered_apartments :
            AntiRule(OwnMatches(a))

\* ------------------------------- compatibility validation of the best pairs
MaxCompatMatches == 2

\* batch_size of validate_claim_compatibility_batch (50 in the source).
batch_size == 1

Verdicts == {"compatible", "incompatible", "partial"}

\* The matches of one apartment: per hit the search claim, the score and the
\* matched text.
CompatHits == [claim : 1..2, score : {700000, 900000}, matched : 1..2]

CompatMatch(search_claims, h) ==
    [search_claim |-> search_claims[h.claim].claim,
     search_claim_obj |-> search_claims[h.claim],
     matched_claim |-> <<"matched", h.matched>>,
     score |-> h.score,
     kind |-> "base",
     claim_type |-> search_claims[h.claim].claim_type,
     quantifiers |-> <<>>,
     matched_negation |-> FALSE]

\* What the model answers to the prompt of one batch: the call or the
\* parsing fails, or parsed["results"] holds some statuses.
BatchResponses ==
    [failed : {TRUE}, results : {<<>>}]
        \cup [failed : {FALSE}, results : SeqsUpTo(Verdicts, batch_size)]

\* The loops of get_best_matches_globally over a list of matches: the first
\* match with the highest score per search claim, the search claims in the
\* order they were first seen.
RECURSIVE BestGloballyFrom(_, _, _)
BestGloballyFrom(ms, i, acc) ==
    IF i > Len(ms) THEN acc
    ELSE LET match == ms[i]
             search_claim == match.search_claim
         IN IF search_claim \notin DOMAIN acc.best
            THEN BestGloballyFrom(ms, i + 1,
                   [keys |-> Append(acc.keys, search_claim),
                    best |-> [x \in DOMAIN acc.best \cup {search_claim} |->
                                IF x = search_claim THEN match ELSE acc.best[x]]])
            ELSE IF match.score > acc.best[search_claim].score
                 THEN BestGloballyFrom(ms, i + 1,
                        [acc EXCEPT !.best[search_claim] = match])
                 ELSE BestGloballyFrom(ms, i + 1, acc)

RECURSIVE ApartmentMatchesInOrder(_, _, _)
ApartmentMatchesInOrder(order, room_matches, apartment_matches) ==
    IF Len(order) = 0 THEN <<>>
    ELSE Get(room_matches, Head(order)) \o Get(apartment_matches, Head(order))
         \o ApartmentMatchesInOrder(Tail(order), room_matches, apartment_matches)

\* ResultScorer.get_best_matches_globally; order is the order in which the
\* set of apartments is iterated.
get_best_matches_globally(order, room_matches, apartment_matches, neighborhood_matches) ==
    BestGloballyFrom(
        ApartmentMatchesInOrder(order, room_matches, apartment_matches)
            \o ConcatValues(neighborhood_matches, SetToSeq(DOMAIN neighborhood_matches)),
        1, [keys |-> <<>>, best |-> <<>>])

\* pairs_list of validate_all_claim_pairs
PairsList(best_matches) ==
    [i \in 1..Len(best_matches.keys) |->
        <<best_matches.best[best_matches.keys[i]].search_claim,
          best_matches.best[best_matches.keys[i]].matched_claim>>]

\* _validate_batch with every pair judged incompatible when the call fails.
ValidateBatchFailClosed(pairs, response) ==
    IF response.failed
    THEN [p \in {pairs[i] : i \in 1..Len(pairs)} |-> "incompatible"]
    ELSE [p \in {pairs[i] : i \in 1..Min(Len(pairs), Len(response.results))} |->
            LET idx == CHOOSE i \in 1..Min(Len(pairs), Len(response.results)) :
                          /\ pairs[i] = p
                          /\ \A j \in 1..Min(Len(pairs), Len(response.results)) :
                                pairs[j] = p => j <= i
            IN response.results[idx]]

\* LLMService._validate_batch: the statuses by position, a later status of
\* the same pair overwriting an earlier one; every pair compatible when the
\* call or the parsing raises.
_validate_batch(pairs, response) ==
    IF response.failed
    THEN [p \in {pairs[i] : i \in 1..Len(pairs)} |-> "compatible"]
    ELSE [p \in {pairs[i] : i \in 1..Min(Len(pairs), Len(response.results))} |->
            LET idx == CHOOSE i \in 1..Min(Len(pairs), Len(response.results)) :
                          /\ pairs[i] = p
                          /\ \A j \in 1..Min(Len(pairs), Len(response.results)) :
                                pairs[j] = p => j <= i
            IN response.results[idx]]

\* The batch a position of the pairs list falls in.
BatchOf(j) == ((j - 1) \div batch_size) + 1

Batch(pairs, b) ==
    SubSeq(pairs, (b - 1) * batch_size + 1, Min(b * batch_size, Len(pairs)))

\* results.update(batch_result) over the batches in order.
RECURSIVE UpdateFromBatches(_, _, _, _)
UpdateFromBatches(pairs, responses, b, results) ==
    IF (b - 1) * batch_size >= Len(pairs) THEN results
    ELSE LET batch_result == _validate_batch(Batch(pairs, b), responses[b])
         IN UpdateFromBatches(pairs, responses, b + 1,
              [p \in DOMAIN results \cup DOMAIN batch_result |->
                  IF p \in DOMAIN batch_result THEN batch_result[p] ELSE results[p]])

\* LLMService.validate_claim_compatibility_batch
validate_claim_compatibility_batch(pairs, responses) ==
    IF Len(pairs) = 0 THEN <<>>
    ELSE UpdateFromBatches(pairs, responses, 1, <<>>)

InitCompat ==
    /\ StoreInit
    /\ \E hits \in SeqsUpTo(CompatHits, MaxCompatMatches),
          responses \in [1..2 -> BatchResponses],
          dc \in BOOLEAN :
            LET search_claims == SearchClaims(<<"apartment", "apartment">>)
            IN input = [fn |-> "validate",
                        search_claims |-> search_claims,
                        apartment_matches |->
                            IF Len(hits) = 0 THEN <<>>
                            ELSE [a \in {"a1"} |->
                                    [k \in 1..Len(hits) |-> CompatMatch(search_claims, hits[k])]],
                        responses |-> responses,
                        double_check_matches |-> dc]
    /\ output = [done |-> FALSE, stage |-> "anti"]

\* _rank_and_filter_results with verify_claims: the best pairs are sent to
\* the validator ...
ValidateAllClaimPairs ==
    /\ input.fn = "validate" /\ output.stage = "anti"
    /\ LET best_matches == get_best_matches_globally(SetToSeq(DOMAIN input.apartment_matches),
                               <<>>, input.apartment_matches, <<>>)
       IN output' = [done |-> FALSE, stage |-> "verified",
                     pairs |-> PairsList(best_matches),
                     compatibility_cache |->
                         validate_claim_compatibility_batch(PairsList(best_matches),
                                                            input.responses)]
    /\ UNCHANGED input
    /\ StoreUnchanged

\* ... and rank_results applies apply_match_validation to every match.
ApplyMatchValidation ==
    /\ input.fn = "validate" /\ output.stage = "verified"
    /\ output' = [done |-> TRUE, stage |-> "validated",
                  pairs |-> output.pairs,
                  compatibility_cache |-> output.compatibility_cache,
                  validated |->
                      [a \in DOMAIN input.apartment_matches |->
                          [k \in 1..Len(input.apartment_matches[a]) |->
                              apply_match_validation(input.apartment_matches[a][k],
                                  output.compatibility_cache,
                                  input.double_check_matches)]]]
    /\ UNCHANGED input
    /\ StoreUnchanged

NextCompat ==
    \/ ValidateAllClaimPairs
    \/ ApplyMatchValidation

SpecCompat == InitCompat /\ [][NextCompat]_vars

\* The validator returned the status verdict for the pair: the pair was
\* submitted at a position whose batch call succeeded and whose status, in
\* the returned list, is verdict.
ExplicitVerdict(pair, verdict) ==
    \E j \in 1..Len(output.pairs) :
        /\ output.pairs[j] = pair
        /\ ~input.responses[BatchOf(j)].failed
        /\ j - (BatchOf(j) - 1) * batch_size <= Len(input.responses[BatchOf(j)].results)
        /\ input.responses[BatchOf(j)].results[j - (BatchOf(j) - 1) * batch_size] = verdict

\* C27: a match is rejected for incompatibility only when the validator
\* returned 'incompatible' for its very pair; a pair that was not
\* submitted, whose batch failed or that got no verdict is scored as a
\* compatible one.
C27_CompatibilityFailOpen ==
    (input.fn = "validate" /\ output.stage = "validated") =>
        \A a \in DOMAIN input.apartment_matches :
            \A k \in 1..Len(input.apartment_matches[a]) :
                LET match == input.apartment_matches[a][k]
                    pair == <<match.search_claim, match.matched_claim>>
                    compatible == apply_match_validation(match, <<>>,
                                      input.double_check_matches)
                IN /\ (compatible.valid /\ ~output.validated[a][k].valid) =>
                          ExplicitVerdict(pair, "incompatible")
                   /\ (\A v \in Verdicts : ~ExplicitVerdict(pair, v)) =>
                          output.validated[a][k] = compatible

\* A submitted pair whose batch failed and a pair that was not submitted
\* are both accepted with their full score.
C27_Witness ==
    /\ input.fn = "validate" /\ output.stage = "validated"
    /\ Len(output.pairs) = 1
    /\ input.responses[1].failed
    /\ Len(input.apartment_matches["a1"]) = 2
    /\ <<input.apartment_matches["a1"][2].search_claim,
         input.apartment_matches["a1"][2].matched_claim>> # output.pairs[1]
    /\ \A k \in 1..2 : /\ output.validated["a1"][k].valid
                       /\ output.validated["a1"][k].score =
                              input.apartment_matches["a1"][k].score

\* C28: get_apartment on a listing whose indexing call has returned success
\* with total_features > 0 answers with a document, whatever the domains of
\* the listing's claims.
C28_IndexedListingIsFound ==
    (/\ got.indexed
     /\ got.result.status = "success"
     /\ got.result.total_features > 0)
    => got.response.found

\* ------------------------------- apply_match_validation on bounded matches
\* One match of a query claim on the number of bedrooms: the stored count
\* (0 for a document without quantifiers) decides the quantifier validation.
PenaltyMatches ==
    [score : {700000, 840000, 850000, 950000}, kind : {"base", "anti"},
     matched_negation : BOOLEAN, negation : BOOLEAN, count : StoredCounts,
     claim_type : {"size", "amenities"}]

PenaltyMatch(f) ==
    LET search_claim_obj ==
            [claim |-> <<"query", 1>>, domain |-> "apartment",
             claim_type |-> f.claim_type, is_specific |-> FALSE,
             negation |-> f.negation,
             quantifiers |-> <<[qtype |-> "count", noun |-> "bedroom",
                                vmin |-> 2, vmax |-> 2, op |-> "EQUALS"]>>]
    IN [search_claim |-> search_claim_obj.claim,
        search_claim_obj |-> search_claim_obj,
        matched_claim |-> <<"matched", 1>>,
        score |-> f.score,
        kind |-> f.kind,
        claim_type |-> f.claim_type,
        quantifiers |-> IF f.count = 0 THEN <<>>
                        ELSE <<[qtype |-> "count", noun |-> "bedroom",
                                vmin |-> f.count, vmax |-> f.count, op |-> "EQUALS"]>>,
        matched_negation |-> f.matched_negation]

InitPenalty ==
    /\ StoreInit
    /\ \E f \in PenaltyMatches, verdict \in {"none"} \cup Verdicts, dc \in BOOLEAN :
          input = [fn |-> "apply_match_validation",
                   match |-> PenaltyMatch(f),
                   compatibility_cache |->
                       IF verdict = "none" THEN <<>>
                       ELSE [p \in {<<PenaltyMatch(f).search_claim,
                                      PenaltyMatch(f).matched_claim>>} |-> verdict],
                   double_check_matches |-> dc]
    /\ output = [done |-> FALSE]

ValidateMatch ==
    /\ input.fn = "apply_match_validation" /\ ~output.done
    /\ output' = [done |-> TRUE,
                  validated |-> apply_match_validation(input.match,
                                    input.compatibility_cache,
                                    input.double_check_matches)]
    /\ UNCHANGED input
    /\ StoreUnchanged

NextPenalty == ValidateMatch

SpecPenalty == InitPenalty /\ [][NextPenalty]_vars

\* The divisor of the one penalty C29 selects for a match.
SelectedPenalty(match) ==
    IF ~validate_quantifiers(match.search_claim_obj, match.quantifiers) THEN 10
    ELSE IF match.kind = "anti" THEN (IF match.score >= 850000 THEN 100 ELSE 20)
    ELSE IF match.search_claim_obj.negation # match.matched_negation THEN 10
    ELSE 1

\* C29: a match that passes the threshold and is not judged incompatible
\* gets exactly one penalty, the first that applies of quantifier failure
\* (x0.1), anti kind (x0.01 from 0.85, x0.05 below) and negation mismatch
\* (x0.1), and the partial factor (x0.5) on top of it; its validated score
\* is positive and at most the score.
C29_OnePenaltyByPriority ==
    (input.fn = "apply_match_validation" /\ output.done /\ output.validated.valid) =>
        LET match == input.match
            partial == Compatibility(input.compatibility_cache,
                           <<match.search_claim, match.matched_claim>>) = "partial"
        IN /\ output.validated.score =
                  (match.score \div SelectedPenalty(match))
                      \div (IF partial THEN 2 ELSE 1)
           /\ output.validated.score > 0
           /\ output.validated.score <= match.score

\* An anti match with failing quantifiers, a negation mismatch and a partial
\* verdict is scored with the quantifier penalty and the partial factor.
C29_Witness ==
    /\ input.fn = "apply_match_validation" /\ output.done /\ output.validated.valid
    /\ ~validate_quantifiers(input.match.search_claim_obj, input.match.quantifiers)
    /\ input.match.kind = "anti"
    /\ input.match.search_claim_obj.negation # input.match.matched_negation
    /\ input.match.score = 950000
    /\ DOMAIN input.compatibility_cache # {}
    /\ output.validated.score = 47500

\* --------------------- the grounding cache across the phases of the listings
MaxListings == 2
MaxVerified == 2

\* grounding_meta.exact_distance_meters of a verification: a distance, or 0
\* for a verification without one (None and 0 are both false in the tests
\* the code makes on it).
ExactDistances == {0, 500}

\* The verified Claim _parse_grounding_response builds from one verification
\* of the original claim: has_quantifiers and the distance quantifier follow
\* the exact distance (the original claim has no quantifiers yet).
VerifiedClaim(original_has_quantifiers, n, distance) ==
    [claim |-> <<"verified", n>>,
     kind |-> "verified",
     has_quantifiers |-> original_has_quantifiers \/ distance # 0,
     quantifiers |-> IF distance # 0
                     THEN <<[qtype |-> "distance", noun |-> "location",
                             vmin |-> distance, vmax |-> distance, op |-> "APPROX"]>>
                     ELSE <<>>]

\* The quantifiers the extraction returns for a claim text when it returns any.
ExtractedQuantifiers ==
    <<[qtype |-> "distance", noun |-> "subway", vmin |-> 400, vmax |-> 600,
       op |-> "APPROX"]>>

\* The Claim objects live in objects, addressed by their position; claims
\* and cache hold positions, so that two holders of one object see the same
\* fields.  stored keeps the values the objects had when the entry was set.
InitCache ==
    /\ StoreInit
    /\ input = [fn |-> "ground_and_quantify", cache_key |-> "40.71_-74.01:transport:near_subway"]
    /\ output = [done |-> FALSE, stage |-> "ground", listing |-> 1,
                 objects |-> <<>>, cache |-> <<>>, stored |-> <<>>,
                 claims |-> <<>>, hit |-> FALSE, returned |-> <<>>]

Values(objects, refs) == [i \in 1..Len(refs) |-> objects[refs[i]]]

\* _ground_claims / ground_claims_batch for the listing's groundable claim:
\* a fresh cache entry is returned as it is (the same objects), an entry
\* older than its ttl is deleted (the clock is not modelled: an entry may be
\* stale at any call); otherwise the provider's verified claims are cached, when
\* there are any, and returned.
GroundBatch ==
    /\ input.fn = "ground_and_quantify" /\ output.stage = "ground"
    /\ \/ /\ input.cache_key \in DOMAIN output.cache
          /\ Len(output.cache[input.cache_key]) > 0
          /\ output' = [output EXCEPT
                          !.stage = "quantify",
                          !.claims = output.cache[input.cache_key],
                          !.hit = TRUE,
                          !.returned = Values(output.objects, output.cache[input.cache_key])]
       \/ /\ \E stale \in BOOLEAN : stale \/ input.cache_key \notin DOMAIN output.cache
          /\ \E original_has_quantifiers \in BOOLEAN,
                distances \in SeqsUpTo(ExactDistances, MaxVerified) :
               LET verified_claims ==
                       [i \in 1..Len(distances) |->
                           VerifiedClaim(original_has_quantifiers,
                                         Len(output.objects) + i, distances[i])]
                   refs == [i \in 1..Len(distances) |-> Len(output.objects) + i]
               IN output' = [output EXCEPT
                               !.stage = "quantify",
                               !.objects = @ \o verified_claims,
                               !.cache = IF Len(refs) > 0
                                         THEN [k \in {input.cache_key} |-> refs]
                                         ELSE <<>>,
                               !.stored = IF Len(refs) > 0
                                          THEN [k \in {input.cache_key} |-> verified_claims]
                                          ELSE <<>>,
                               !.claims = refs,
                               !.hit = FALSE,
                               !.returned = <<>>]
    /\ UNCHANGED input
    /\ StoreUnchanged

\* expand_claims leaves the verified claims as they are (only base claims
\* are expanded); extract_quantifiers then assigns the quantified text and
\* the quantifiers to every claim with has_quantifiers for which the
\* extraction returned quantifiers.
QuantifyClaims ==
    /\ input.fn = "ground_and_quantify" /\ output.stage = "quantify"
    /\ \E extracted \in SUBSET {output.claims[i] : i \in 1..Len(output.claims)} :
         output' = [output EXCEPT
                      !.stage = IF output.listing < MaxListings THEN "ground" ELSE "done",
                      !.done = ~(output.listing < MaxListings),
                      !.listing = IF output.listing < MaxListings THEN @ + 1 ELSE @,
                      !.objects =
                          [r \in 1..Len(output.objects) |->
                              IF r \in extracted /\ output.objects[r].has_quantifiers
                              THEN [output.objects[r] EXCEPT
                                      !.quantifiers = ExtractedQuantifiers,
                                      !.claim = <<"VAR_1">> \o @]
                              ELSE output.objects[r]]]
    /\ UNCHANGED input
    /\ StoreUnchanged

NextCache ==
    \/ GroundBatch
    \/ QuantifyClaims

SpecCache == InitCache /\ [][NextCache]_vars

\* C30: the verified claims a cache hit returns have the claim text and the
\* quantifiers they had when the entry was set.
C30_CacheEntriesUnaltered ==
    (input.fn = "ground_and_quantify" /\ output.hit) =>
        /\ Len(output.returned) = Len(output.stored[input.cache_key])
        /\ \A i \in 1..Len(output.returned) :
              /\ output.returned[i].claim = output.stored[input.cache_key][i].claim
              /\ output.returned[i].quantifiers =
                     output.stored[input.cache_key][i].quantifiers

====
